---- MODULE Spec2Model ----
(***************************************************************************)
(* A model of the DietPlanner Telegram bot: the SQLite data layer          *)
(* (database.py), the meal-plan generator (meal_planner.py) and the        *)
(* food-diary conversation (diary.py).                                     *)
(*                                                                         *)
(* Numbers: calories and macronutrients are REAL columns and Python        *)
(* floats; the model uses integers. A slot's target is kept in hundredths  *)
(* (goal_calories * percent), so that goal_calories * 0.25 and the band    *)
(* tests target * 0.8 <= calories <= target * 1.2 are exact integer        *)
(* comparisons. On every value of RecipeCatalog and GoalProfiles the       *)
(* float comparisons of the code give the same answers.                    *)
(* Dates are day numbers; meal types carry English names                   *)
(* (breakfast = "Завтрак", lunch = "Обед", dinner = "Ужин",                *)
(* snack = "Перекус").                                                     *)
(***************************************************************************)
EXTENDS Integers, Sequences, FiniteSets, TLC

VARIABLES
    users,            \* table users: user id -> row, or None
    recipes,          \* table recipes: set of rows
    recipes_seq,      \* AUTOINCREMENT counter of recipes
    meal_plan,        \* table meal_plan: set of rows
    meal_plan_seq,    \* AUTOINCREMENT counter of meal_plan
    food_entries,     \* table food_entries: set of rows
    food_seq,         \* AUTOINCREMENT counter of food_entries
    water_entries,    \* table water_entries: set of rows
    water_seq,        \* AUTOINCREMENT counter of water_entries
    weight_records,   \* table weight_records: set of rows
    weight_seq,       \* AUTOINCREMENT counter of weight_records
    shopping_cart,    \* table shopping_cart: set of rows
    cart_seq,         \* AUTOINCREMENT counter of shopping_cart
    today,            \* datetime.now() as a day number
    open_connections, \* connections get_db_connection opened and nobody closed
    ret,              \* the last data-layer call: function, failure point, outcome
    generated_plan,   \* generate_daily_meal_plan: its generated_plan list
    plan_slots,       \* generate_daily_meal_plan: the locals of each loop iteration
    plan_requests,    \* generate_meal_plan: the position and locals of each running call
    saved_args,       \* history: recipe id -> the arguments save_recipe got for it
    last_weight,      \* history: (user, date) -> the weight last written for them
    shown_recipes,    \* history: recipe ids of the plan_recipe:<id> buttons shown so far
    shown_replacements, \* history: the confirm_replace:... buttons shown so far
    fsm_state,        \* FSMContext of the diary conversation: the current state
    fsm_data,         \* FSMContext of the diary conversation: the stored data
    last_handler,     \* the handler that ran last
    diary_date        \* the date of the diary message last sent to the user

tables == <<users, recipes, recipes_seq, meal_plan, meal_plan_seq, food_entries,
            food_seq, water_entries, water_seq, weight_records, weight_seq,
            shopping_cart, cart_seq>>

planVars == <<generated_plan, plan_slots, plan_requests>>

historyVars == <<saved_args, last_weight, shown_recipes, shown_replacements>>

dialogVars == <<fsm_state, fsm_data, last_handler, diary_date>>

vars == <<tables, today, open_connections, ret, planVars, historyVars, dialogVars>>

\* ------------------------------------------------------------------ bounds

MaxRecipes == 2
MaxGenerations == 1
MaxDate == 2
MaxFoodEntries == 3
MaxWaterEntries == 1
MaxWeightRecords == 3
MaxCartItems == 2
MaxSavedRecipes == 2
MaxDiaryEntries == 2
MaxQuantity == 200
MaxPlanRows == 2
MaxCartSeq == 4

\* ------------------------------------------------------------------ values

None == [is_none |-> TRUE]

Users == {1, 2}

Dates == 1..MaxDate

\* meal_distribution.items(): dict order
MealTypes == <<"breakfast", "lunch", "dinner", "snack">>

\* daily targets a registered user can hold (goal_calories, protein, fat, carbs)
GoalProfiles ==
    { [goal_calories |-> 1000, protein |-> 100, fat |-> 60, carbs |-> 200],
      [goal_calories |-> 2000, protein |-> 200, fat |-> 120, carbs |-> 400] }

\* nutrition values a saved recipe can hold
RecipeCatalog ==
    { [name |-> "omelette", calories |-> 240, protein |-> 25, fat |-> 18, carbs |-> 60],
      [name |-> "porridge", calories |-> 300, protein |-> 10, fat |-> 30, carbs |-> 20],
      [name |-> "pasta",    calories |-> 420, protein |-> 40, fat |-> 21, carbs |-> 70],
      [name |-> "stew",     calories |-> 700, protein |-> 80, fat |-> 42, carbs |-> 140],
      [name |-> "apple",    calories |-> 130, protein |-> 2,  fat |-> 1,  carbs |-> 30] }

Abs(x) == IF x < 0 THEN -x ELSE x

Range(s) == { s[i] : i \in 1..Len(s) }

\* ------------------------------------------------------------------ data layer

get_user(user_id) == users[user_id]

RECURSIVE OrderRecipes(_)
\* ORDER BY is_favorite DESC, creation_date DESC (creation order = id order)
OrderRecipes(rows) ==
    IF rows = {} THEN <<>>
    ELSE LET first == CHOOSE r \in rows :
                        \A q \in rows :
                            \/ r.is_favorite > q.is_favorite
                            \/ r.is_favorite = q.is_favorite /\ r.id >= q.id
         IN <<first>> \o OrderRecipes(rows \ {first})

\* is_favorite=None: no filter
AnyFavorite == 0 - 1

\* SELECT * FROM recipes WHERE user_id = ? [AND is_favorite = ?] ORDER BY ...
saved_recipes(user_id, is_favorite) ==
    OrderRecipes({ r \in recipes :
        /\ r.user_id = user_id
        /\ is_favorite # AnyFavorite => r.is_favorite = is_favorite })

clear_meal_plan(plan, user_id, date) ==
    { p \in plan : ~(p.user_id = user_id /\ p.date = date) }

\* the row INSERT INTO meal_plan adds, id from the AUTOINCREMENT counter
MealPlanRow(id, user_id, recipe_id, meal_type, date) ==
    [id |-> id, user_id |-> user_id, recipe_id |-> recipe_id,
     meal_type |-> meal_type, date |-> date]

\* ------------------------------------------------------------------ calls and failures

\* where a database operation of one call raises: nowhere, in sqlite3.connect,
\* in a statement before the commit, in conn.commit(), or in a statement after it
FailPoints == {"none", "connect", "execute", "commit", "after_commit"}

ReadFails == {"none", "connect", "execute"}

WriteFails == {"none", "connect", "execute", "commit"}

\* Python values a data-layer function returns
pyNone == [kind |-> "none"]

pyInt(n) == [kind |-> "int", v |-> n]

pyBool(b) == [kind |-> "bool", v |-> b]

pyList(l) == [kind |-> "list", v |-> l]

pyDict(d) == [kind |-> "dict", v |-> d]

\* conn = get_db_connection() stands before the try: an exception of
\* sqlite3.connect leaves the function
Raised(fail) == fail = "connect"

\* the connections the call opened
Opened(fail) == IF fail = "connect" THEN 0 ELSE 1

\* a variant without the finally: close only after the normal path
ClosedOnSuccessOnly(fail) == IF fail = "none" THEN 1 ELSE 0

\* finally: conn.close() runs on every path that opened the connection
Closed(fail) == Opened(fail)

\* a change is stored when conn.commit() has returned; a connection closed
\* before that rolls the change back
Committed(fail) == fail \in {"none", "after_commit"}

\* the record of one call kept in ret
Return(fn, fail, value) ==
    [fn |-> fn, fail |-> fail, raised |-> Raised(fail),
     value |-> IF Raised(fail) THEN pyNone ELSE value]

ConnectionsAfter(fail) == open_connections + Opened(fail) - Closed(fail)

RECURSIVE SetSum(_, _)
\* SUM(col) over a set of rows
SetSum(rows, col) ==
    IF rows = {} THEN 0
    ELSE LET r == CHOOSE r \in rows : TRUE
         IN r[col] + SetSum(rows \ {r}, col)

\* SQL SUM: NULL (the empty tuple) over no rows
SqlSum(rows, col) == IF rows = {} THEN <<>> ELSE <<SetSum(rows, col)>>

\* SQL COALESCE(x, d)
Coalesce(x, d) == IF x = <<>> THEN d ELSE x[1]

RECURSIVE OrderById(_)
\* ORDER BY entry_time: rows in the order of their insertion
OrderById(rows) ==
    IF rows = {} THEN <<>>
    ELSE LET first == CHOOSE r \in rows : \A q \in rows : r.id <= q.id
         IN <<first>> \o OrderById(rows \ {first})

\* ------------------------------------------------------------------ food diary tables

FoodCatalog ==
    { [food_name |-> "bread", calories |-> 250, protein |-> 8, fat |-> 3, carbs |-> 50],
      [food_name |-> "cheese", calories |-> 350, protein |-> 25, fat |-> 27, carbs |-> 2] }

DiaryMealTypes == {"breakfast", "lunch"}

FoodRow(id, user_id, date, meal_type, food_name, calories, protein, fat, carbs) ==
    [id |-> id, user_id |-> user_id, date |-> date, meal_type |-> meal_type,
     food_name |-> food_name, calories |-> calories, protein |-> protein,
     fat |-> fat, carbs |-> carbs]

\* what add_food_entry leaves behind and returns
add_food_entry_call(user_id, date, meal_type, food_name, calories, protein, fat, carbs, fail) ==
    [food_entries |->
        IF Committed(fail)
        THEN food_entries \cup { FoodRow(food_seq + 1, user_id, date, meal_type,
                                         food_name, calories, protein, fat, carbs) }
        ELSE food_entries,
     food_seq |-> IF Committed(fail) THEN food_seq + 1 ELSE food_seq,
     value |-> IF fail = "none" THEN pyInt(food_seq + 1) ELSE pyNone]

add_food_entry(user_id, date, meal_type, food, fail) ==
    /\ food_seq < MaxFoodEntries
    /\ LET c == add_food_entry_call(user_id, date, meal_type, food.food_name,
                    food.calories, food.protein, food.fat, food.carbs, fail)
       IN /\ food_entries' = c.food_entries
          /\ food_seq' = c.food_seq
          /\ ret' = Return("add_food_entry", fail, c.value)
    /\ open_connections' = ConnectionsAfter(fail)
    /\ UNCHANGED <<users, recipes, recipes_seq, meal_plan, meal_plan_seq,
                   water_entries, water_seq, weight_records, weight_seq,
                   shopping_cart, cart_seq, today, planVars, dialogVars, historyVars>>

\* None where a date is expected
NoDate == 0

\* WHERE user_id = ? AND date = ?; with None for the date the comparison
\* date = NULL is true of no row
DayRows(user_id, date) ==
    { e \in food_entries : e.user_id = user_id /\ date # NoDate /\ e.date = date }

\* SELECT * FROM food_entries WHERE ... ORDER BY entry_time
daily_entries(user_id, date) == OrderById(DayRows(user_id, date))

\* a variant whose WHERE leaves out the date
daily_totals_any_date(user_id, date) ==
    LET rows == { e \in food_entries : e.user_id = user_id }
    IN [total_calories |-> Coalesce(SqlSum(rows, "calories"), 0),
        total_protein  |-> Coalesce(SqlSum(rows, "protein"), 0),
        total_fat      |-> Coalesce(SqlSum(rows, "fat"), 0),
        total_carbs    |-> Coalesce(SqlSum(rows, "carbs"), 0)]

\* SELECT COALESCE(SUM(calories), 0) ..., one row
daily_totals(user_id, date) ==
    [total_calories |-> Coalesce(SqlSum(DayRows(user_id, date), "calories"), 0),
     total_protein  |-> Coalesce(SqlSum(DayRows(user_id, date), "protein"), 0),
     total_fat      |-> Coalesce(SqlSum(DayRows(user_id, date), "fat"), 0),
     total_carbs    |-> Coalesce(SqlSum(DayRows(user_id, date), "carbs"), 0)]

ZeroTotals ==
    [total_calories |-> 0, total_protein |-> 0, total_fat |-> 0, total_carbs |-> 0]

ReadOnly ==
    UNCHANGED <<tables, today, planVars, dialogVars, historyVars>>

get_daily_entries(user_id, date, fail) ==
    /\ ret' = Return("get_daily_entries", fail,
                     IF fail = "none" THEN pyList(daily_entries(user_id, date))
                     ELSE pyList(<<>>))
    /\ open_connections' = ConnectionsAfter(fail)
    /\ ReadOnly

get_daily_totals(user_id, date, fail) ==
    /\ ret' = Return("get_daily_totals", fail,
                     IF fail = "none" THEN pyDict(daily_totals(user_id, date))
                     ELSE pyDict(ZeroTotals))
    /\ open_connections' = ConnectionsAfter(fail)
    /\ ReadOnly

\* DELETE FROM food_entries WHERE user_id = ? AND date = ?
clear_daily_entries_call(user_id, date, fail) ==
    [food_entries |-> IF Committed(fail) THEN food_entries \ DayRows(user_id, date)
                      ELSE food_entries,
     value |-> pyBool(fail = "none")]

clear_daily_entries(user_id, date, fail) ==
    /\ LET c == clear_daily_entries_call(user_id, date, fail)
       IN /\ food_entries' = c.food_entries
          /\ ret' = Return("clear_daily_entries", fail, c.value)
    /\ open_connections' = ConnectionsAfter(fail)
    /\ UNCHANGED <<users, recipes, recipes_seq, meal_plan, meal_plan_seq, food_seq,
                   water_entries, water_seq, weight_records, weight_seq,
                   shopping_cart, cart_seq, today, planVars, dialogVars, historyVars>>

WaterAmounts == {250}

add_water_entry(user_id, amount, fail) ==
    /\ water_seq < MaxWaterEntries
    /\ water_entries' =
          IF Committed(fail)
          THEN water_entries \cup { [id |-> water_seq + 1, user_id |-> user_id,
                                     date |-> today, amount |-> amount] }
          ELSE water_entries
    /\ water_seq' = IF Committed(fail) THEN water_seq + 1 ELSE water_seq
    /\ ret' = Return("add_water_entry", fail, pyBool(fail = "none"))
    /\ open_connections' = ConnectionsAfter(fail)
    /\ UNCHANGED <<users, recipes, recipes_seq, meal_plan, meal_plan_seq,
                   food_entries, food_seq, weight_records, weight_seq,
                   shopping_cart, cart_seq, today, planVars, dialogVars, historyVars>>

\* SELECT COALESCE(SUM(amount), 0) FROM water_entries WHERE user_id = ? AND date = ?
daily_water(user_id, date) ==
    Coalesce(SqlSum({ w \in water_entries : w.user_id = user_id /\ w.date = date },
                    "amount"), 0)

get_daily_water(user_id, date, fail) ==
    /\ ret' = Return("get_daily_water", fail,
                     IF fail = "none" THEN pyInt(daily_water(user_id, date))
                     ELSE pyInt(0))
    /\ open_connections' = ConnectionsAfter(fail)
    /\ ReadOnly

\* FSMContext after state.clear(): state None, data {}
StateNone == "None"

\* a key missing from the FSM data: get() gives None
NoMealType == ""

ClearedData ==
    [selected_date |-> NoDate, meal_type |-> NoMealType, search_results |-> <<>>,
     selected_food |-> None]

NoCall == [fn |-> "", fail |-> "none", raised |-> FALSE, value |-> pyNone]

\* the two overlapping generate_meal_plan calls of one user
Requests == {"first", "second"}

\* no call of generate_meal_plan has started
NoRequests ==
    [q \in Requests |-> [pc |-> "new", slot |-> 0, recipes |-> << >>, selected_date |-> NoDate]]

\* empty tables, nothing called yet
InitEmpty ==
    /\ users = [u \in Users |-> None]
    /\ recipes = {}
    /\ recipes_seq = 0
    /\ meal_plan = {}
    /\ meal_plan_seq = 0
    /\ food_entries = {}
    /\ food_seq = 0
    /\ water_entries = {}
    /\ water_seq = 0
    /\ weight_records = {}
    /\ weight_seq = 0
    /\ shopping_cart = {}
    /\ cart_seq = 0
    /\ today = 1
    /\ open_connections = 0
    /\ ret = NoCall
    /\ generated_plan = [user_id |-> 0, plan |-> <<>>]
    /\ plan_slots = <<>>
    /\ plan_requests = NoRequests
    /\ saved_args = << >>
    /\ last_weight = [k \in Users \X Dates |-> 0]
    /\ shown_recipes = {}
    /\ shown_replacements = {}
    /\ fsm_state = StateNone
    /\ fsm_data = ClearedData
    /\ last_handler = ""
    /\ diary_date = NoDate

\* the writes of the food diary, every failure point included
NextEntries ==
    \/ \E u \in Users, d \in Dates, f \in FoodCatalog, fail \in FailPoints :
          add_food_entry(u, d, "breakfast", f, fail)
    \/ \E u \in Users, d \in Dates, fail \in WriteFails : clear_daily_entries(u, d, fail)

SpecEntries == InitEmpty /\ [][NextEntries]_vars

\* the reads and writes of the food diary and the water tracker
NextFood ==
    \/ \E u \in Users, d \in Dates, f \in FoodCatalog, fail \in FailPoints :
          add_food_entry(u, d, "breakfast", f, fail)
    \/ \E u \in Users, d \in Dates, fail \in WriteFails : clear_daily_entries(u, d, fail)
    \/ \E u \in Users, d \in Dates, fail \in ReadFails : get_daily_entries(u, d, fail)
    \/ \E u \in Users, d \in Dates, fail \in ReadFails : get_daily_totals(u, d, fail)
    \/ \E u \in Users, a \in WaterAmounts, fail \in WriteFails : add_water_entry(u, a, fail)
    \/ \E u \in Users, d \in Dates, fail \in ReadFails : get_daily_water(u, d, fail)

SpecFood == InitEmpty /\ [][NextFood]_vars

\* ------------------------------------------------------------------ recipes

\* what a user saves: two catalog recipes
RecipeInputs == { c \in RecipeCatalog : c.name \in {"omelette", "porridge"} }

\* a variant that binds fat and carbs to each other's column
RecipeRowFatCarbsSwapped(id, user_id, name, ingredients, instructions, calories, protein, fat, carbs) ==
    [id |-> id, user_id |-> user_id, name |-> name, ingredients |-> ingredients,
     instructions |-> instructions, calories |-> calories, protein |-> protein,
     fat |-> carbs, carbs |-> fat, is_favorite |-> 0]

\* INSERT INTO recipes (user_id, name, ingredients, instructions, calories,
\* protein, fat, carbs, photo_path); is_favorite DEFAULT 0
RecipeRow(id, user_id, name, ingredients, instructions, calories, protein, fat, carbs) ==
    [id |-> id, user_id |-> user_id, name |-> name, ingredients |-> ingredients,
     instructions |-> instructions, calories |-> calories, protein |-> protein,
     fat |-> fat, carbs |-> carbs, is_favorite |-> 0]

SaveArgs(user_id, name, ingredients, instructions, calories, protein, fat, carbs) ==
    [user_id |-> user_id, name |-> name, ingredients |-> ingredients,
     instructions |-> instructions, calories |-> calories, protein |-> protein,
     fat |-> fat, carbs |-> carbs]

\* history: forget a recipe id
Forget(f, id) == [i \in DOMAIN f \ {id} |-> f[i]]

save_recipe(user_id, name, ingredients, instructions, calories, protein, fat, carbs, fail) ==
    /\ recipes_seq < MaxSavedRecipes
    /\ recipes' =
          IF Committed(fail)
          THEN recipes \cup { RecipeRow(recipes_seq + 1, user_id, name, ingredients,
                                        instructions, calories, protein, fat, carbs) }
          ELSE recipes
    /\ recipes_seq' = IF Committed(fail) THEN recipes_seq + 1 ELSE recipes_seq
    /\ ret' = Return("save_recipe", fail,
                     IF fail = "none" THEN pyInt(recipes_seq + 1) ELSE pyNone)
    /\ saved_args' =
          IF fail = "none"
          THEN (recipes_seq + 1 :> SaveArgs(user_id, name, ingredients, instructions,
                                            calories, protein, fat, carbs)) @@ saved_args
          ELSE saved_args
    /\ open_connections' = ConnectionsAfter(fail)
    /\ UNCHANGED <<users, meal_plan, meal_plan_seq, food_entries, food_seq,
                   water_entries, water_seq, weight_records, weight_seq,
                   shopping_cart, cart_seq, today, planVars, dialogVars,
                   last_weight, shown_recipes,
                   shown_replacements>>

\* SELECT * FROM recipes WHERE id = ?: dict(recipe), or None
recipe_details(recipe_id) ==
    IF \E r \in recipes : r.id = recipe_id
    THEN pyDict(CHOOSE r \in recipes : r.id = recipe_id)
    ELSE pyNone

get_recipe_details(recipe_id, fail) ==
    /\ ret' = Return("get_recipe_details", fail,
                     IF fail = "none" THEN recipe_details(recipe_id) ELSE pyNone)
    /\ open_connections' = ConnectionsAfter(fail)
    /\ ReadOnly

toggle_favorite_recipe(recipe_id, fail) ==
    /\ LET current == { r \in recipes : r.id = recipe_id }
           new_status(r) == 1 - r.is_favorite
       IN /\ recipes' =
                IF Committed(fail)
                THEN (recipes \ current)
                     \cup { [r EXCEPT !.is_favorite = new_status(r)] : r \in current }
                ELSE recipes
          /\ ret' = Return("toggle_favorite_recipe", fail,
                           IF fail = "none" /\ current # {}
                           THEN pyBool(\E r \in current : new_status(r) = 1)
                           ELSE pyBool(FALSE))
    /\ open_connections' = ConnectionsAfter(fail)
    /\ UNCHANGED <<users, recipes_seq, meal_plan, meal_plan_seq, food_entries, food_seq,
                   water_entries, water_seq, weight_records, weight_seq,
                   shopping_cart, cart_seq, today, planVars, dialogVars, historyVars>>

\* DELETE FROM meal_plan WHERE recipe_id = ?; DELETE FROM recipes WHERE id = ?
delete_recipe(recipe_id, fail) ==
    /\ recipes' = IF Committed(fail) THEN { r \in recipes : r.id # recipe_id }
                  ELSE recipes
    /\ meal_plan' = IF Committed(fail) THEN { p \in meal_plan : p.recipe_id # recipe_id }
                    ELSE meal_plan
    /\ ret' = Return("delete_recipe", fail, pyBool(fail = "none"))
    /\ saved_args' = IF Committed(fail) THEN Forget(saved_args, recipe_id)
                     ELSE saved_args
    /\ open_connections' = ConnectionsAfter(fail)
    /\ UNCHANGED <<users, recipes_seq, meal_plan_seq, food_entries, food_seq,
                   water_entries, water_seq, weight_records, weight_seq,
                   shopping_cart, cart_seq, today, planVars, dialogVars,
                   last_weight, shown_recipes,
                   shown_replacements>>

RecipeIds == 1..MaxSavedRecipes

NextRecipes ==
    \/ \E u \in Users, c \in RecipeInputs, fail \in FailPoints :
          save_recipe(u, c.name, "ingredients", "instructions",
                      c.calories, c.protein, c.fat, c.carbs, fail)
    \/ \E id \in RecipeIds, fail \in ReadFails : get_recipe_details(id, fail)
    \/ \E id \in RecipeIds, fail \in WriteFails : toggle_favorite_recipe(id, fail)
    \/ \E id \in RecipeIds, fail \in WriteFails : delete_recipe(id, fail)

SpecRecipes == InitEmpty /\ [][NextRecipes]_vars

\* ------------------------------------------------------------------ weight records

Weights == {70, 71}

\* a variant: plain INSERT without the UNIQUE constraint
InsertOnly(rows, row) == rows \cup {row}

\* INSERT OR REPLACE under UNIQUE(user_id, date): the rows the new one conflicts
\* with are deleted
InsertOrReplace(rows, row) ==
    { r \in rows : ~(r.user_id = row.user_id /\ r.date = row.date) } \cup {row}

add_weight_record(user_id, weight, fail) ==
    /\ weight_seq < MaxWeightRecords
    /\ weight_records' =
          IF Committed(fail)
          THEN InsertOrReplace(weight_records,
                   [id |-> weight_seq + 1, user_id |-> user_id, date |-> today,
                    weight |-> weight])
          ELSE weight_records
    /\ weight_seq' = IF Committed(fail) THEN weight_seq + 1 ELSE weight_seq
    /\ ret' = Return("add_weight_record", fail, pyBool(fail = "none"))
    /\ last_weight' = IF Committed(fail)
                      THEN [last_weight EXCEPT ![<<user_id, today>>] = weight]
                      ELSE last_weight
    /\ open_connections' = ConnectionsAfter(fail)
    /\ UNCHANGED <<users, recipes, recipes_seq, meal_plan, meal_plan_seq,
                   food_entries, food_seq, water_entries, water_seq,
                   shopping_cart, cart_seq, today, planVars, dialogVars,
                   saved_args, shown_recipes,
                   shown_replacements>>

\* SELECT ... WHERE user_id = ? ORDER BY date DESC LIMIT 1
latest_weight_record(user_id) ==
    LET mine == { r \in weight_records : r.user_id = user_id }
    IN IF mine = {} THEN pyNone
       ELSE pyDict(CHOOSE r \in mine : \A q \in mine :
                       q.date < r.date \/ (q.date = r.date /\ q.id >= r.id))

get_latest_weight_record(user_id, fail) ==
    /\ ret' = Return("get_latest_weight_record", fail,
                     IF fail = "none" THEN latest_weight_record(user_id) ELSE pyNone)
    /\ open_connections' = ConnectionsAfter(fail)
    /\ ReadOnly

\* the clock passes midnight
NextDay ==
    /\ today < MaxDate
    /\ today' = today + 1
    /\ UNCHANGED <<tables, open_connections, ret, planVars, dialogVars, historyVars>>

NextWeight ==
    \/ \E u \in Users, w \in Weights, fail \in WriteFails : add_weight_record(u, w, fail)
    \/ \E u \in Users, fail \in ReadFails : get_latest_weight_record(u, fail)
    \/ NextDay

SpecWeight == InitEmpty /\ [][NextWeight]_vars

\* ------------------------------------------------------------------ users and shopping cart

\* NULL in a numeric column
Null == 0 - 1

\* NULL in a text column
NullText == ""

\* INSERT INTO users (id, name, water_goal): the other columns are NULL,
\* registration_complete DEFAULT FALSE
NewUser(user_id, name) ==
    [id |-> user_id, name |-> name, gender |-> NullText, age |-> Null, height |-> Null,
     weight |-> Null, activity_level |-> NullText, goal |-> NullText,
     goal_calories |-> Null, protein |-> Null, fat |-> Null, carbs |-> Null,
     registration_complete |-> FALSE]

create_user(user_id, name, fail) ==
    /\ users' = IF Committed(fail) /\ users[user_id] = None
                THEN [users EXCEPT ![user_id] = NewUser(user_id, name)]
                ELSE users
    /\ ret' = Return("create_user", fail, pyBool(fail = "none" /\ users[user_id] = None))
    /\ open_connections' = ConnectionsAfter(fail)
    /\ UNCHANGED <<recipes, recipes_seq, meal_plan, meal_plan_seq, food_entries, food_seq,
                   water_entries, water_seq, weight_records, weight_seq,
                   shopping_cart, cart_seq, today, planVars, dialogVars, historyVars>>

\* the keyword arguments callers pass to update_user
UserUpdates ==
    { [weight |-> 80],
      [goal_calories |-> 2000, protein |-> 200, fat |-> 120, carbs |-> 400],
      << >> }

\* UPDATE users SET key = ?, ... WHERE id = ?; goal_calories among the keys sets
\* registration_complete
UpdatedUser(row, kwargs) ==
    [f \in DOMAIN row |->
        IF f \in DOMAIN kwargs THEN kwargs[f]
        ELSE IF f = "registration_complete" /\ "goal_calories" \in DOMAIN kwargs THEN TRUE
        ELSE row[f]]

\* without keyword arguments the statement is "UPDATE users SET  WHERE id = ?",
\* which sqlite3 rejects: the call fails in execute
update_user(user_id, kwargs, fail) ==
    /\ DOMAIN kwargs = {} => fail \in {"connect", "execute"}
    /\ users' = IF Committed(fail) /\ users[user_id] # None
                THEN [users EXCEPT ![user_id] = UpdatedUser(users[user_id], kwargs)]
                ELSE users
    /\ ret' = Return("update_user", fail, pyBool(fail = "none"))
    /\ open_connections' = ConnectionsAfter(fail)
    /\ UNCHANGED <<recipes, recipes_seq, meal_plan, meal_plan_seq, food_entries, food_seq,
                   water_entries, water_seq, weight_records, weight_seq,
                   shopping_cart, cart_seq, today, planVars, dialogVars, historyVars>>

Products == {"milk", "eggs"}

Quantities == {100}

\* SELECT id, quantity FROM shopping_cart WHERE user_id = ? AND product_name = ?
\* AND unit = ?, fetchone(): the first row
ExistingItem(user_id, product_name, unit) ==
    { r \in shopping_cart :
        /\ r.user_id = user_id /\ r.product_name = product_name /\ r.unit = unit
        /\ \A q \in shopping_cart :
              (q.user_id = user_id /\ q.product_name = product_name /\ q.unit = unit)
                  => r.id <= q.id }

add_shopping_cart_item(user_id, product_name, quantity, unit, period, source, fail) ==
    LET existing == ExistingItem(user_id, product_name, unit)
    IN /\ existing = {} => cart_seq < MaxCartItems
       /\ \A r \in existing : r.quantity + quantity <= MaxQuantity
       /\ shopping_cart' =
             IF ~Committed(fail) THEN shopping_cart
             ELSE IF existing # {}
             THEN (shopping_cart \ existing)
                  \cup { [r EXCEPT !.quantity = r.quantity + quantity,
                                   !.period = period, !.source = source] : r \in existing }
             ELSE shopping_cart
                  \cup { [id |-> cart_seq + 1, user_id |-> user_id,
                          product_name |-> product_name, quantity |-> quantity,
                          unit |-> unit, period |-> period, is_purchased |-> 0,
                          source |-> source] }
       /\ cart_seq' = IF Committed(fail) /\ existing = {} THEN cart_seq + 1 ELSE cart_seq
       /\ ret' = Return("add_shopping_cart_item", fail, pyBool(fail = "none"))
       /\ open_connections' = ConnectionsAfter(fail)
       /\ UNCHANGED <<users, recipes, recipes_seq, meal_plan, meal_plan_seq,
                      food_entries, food_seq, water_entries, water_seq,
                      weight_records, weight_seq, today, planVars, dialogVars, historyVars>>

RECURSIVE OrderCart(_)
\* ORDER BY is_purchased ASC, product_name ASC (ties in insertion order); the
\* names of Products are ordered "eggs" < "milk"
OrderCart(rows) ==
    IF rows = {} THEN <<>>
    ELSE LET Key(r) == 1000 * r.is_purchased
                       + (IF r.product_name = "eggs" THEN 0 ELSE 100) + r.id
             first == CHOOSE r \in rows : \A q \in rows : Key(r) <= Key(q)
         IN <<first>> \o OrderCart(rows \ {first})

get_shopping_cart_items(user_id, fail) ==
    /\ ret' = Return("get_shopping_cart_items", fail,
                     IF fail = "none"
                     THEN pyList(OrderCart({ r \in shopping_cart : r.user_id = user_id }))
                     ELSE pyList(<<>>))
    /\ open_connections' = ConnectionsAfter(fail)
    /\ ReadOnly

clear_shopping_cart(user_id, fail) ==
    /\ shopping_cart' = IF Committed(fail)
                        THEN { r \in shopping_cart : r.user_id # user_id }
                        ELSE shopping_cart
    /\ ret' = Return("clear_shopping_cart", fail, pyBool(fail = "none"))
    /\ open_connections' = ConnectionsAfter(fail)
    /\ UNCHANGED <<users, recipes, recipes_seq, meal_plan, meal_plan_seq,
                   food_entries, food_seq, water_entries, water_seq,
                   weight_records, weight_seq, cart_seq, today, planVars, dialogVars, historyVars>>

NextCart ==
    \/ \E u \in Users, fail \in WriteFails : create_user(u, "Ann", fail)
    \/ \E u \in Users, kw \in UserUpdates, fail \in WriteFails : update_user(u, kw, fail)
    \/ \E u \in Users, p \in Products, q \in Quantities, fail \in WriteFails :
          add_shopping_cart_item(u, p, q, "g", "manual", "manual", fail)
    \/ \E u \in Users, fail \in ReadFails : get_shopping_cart_items(u, fail)
    \/ \E u \in Users, fail \in WriteFails : clear_shopping_cart(u, fail)

SpecCart == InitEmpty /\ [][NextCart]_vars

\* ------------------------------------------------------------------ meal-plan generator

meal_distribution_lunch40 ==
    [breakfast |-> 25, lunch |-> 40, dinner |-> 30, snack |-> 10]

\* percent of the daily calories per meal slot
meal_distribution ==
    [breakfast |-> 25, lunch |-> 35, dinner |-> 30, snack |-> 10]

\* goal_calories * percentage, in hundredths of a kcal
target_calories(goal_calories, meal_type) ==
    goal_calories * meal_distribution[meal_type]

\* the targets one loop iteration computes: calories only
SlotTarget(user, meal_type) ==
    [calories |-> target_calories(user.goal_calories, meal_type)]

\* target * 0.8 <= r['calories'] <= target * 1.2
InBand(r, target) ==
    /\ 8 * target.calories <= 1000 * r.calories
    /\ 1000 * r.calories <= 12 * target.calories

\* abs(r['calories'] - target_calories), in hundredths
Distance(r, target) == Abs(100 * r.calories - target.calories)

\* sorted(recipes, key=...)[:1]: the sort is stable, the first minimum wins
NearestFirst(recs, target) ==
    IF recs = <<>> THEN <<>>
    ELSE LET i == CHOOSE i \in 1..Len(recs) :
                    /\ \A j \in 1..Len(recs) :
                          Distance(recs[i], target) <= Distance(recs[j], target)
                    /\ \A j \in 1..(i - 1) :
                          Distance(recs[j], target) > Distance(recs[i], target)
         IN <<recs[i]>>

suitable_recipes_band40(recs, target) ==
    LET in20 == SelectSeq(recs, LAMBDA r : InBand(r, target))
        in40 == SelectSeq(recs, LAMBDA r :
                    /\ 6 * target.calories <= 1000 * r.calories
                    /\ 1000 * r.calories <= 14 * target.calories)
    IN IF in20 # <<>> THEN in20
       ELSE IF in40 # <<>> THEN in40
       ELSE NearestFirst(recs, target)

\* the candidates of one slot
suitable_recipes(recs, target) ==
    LET in20 == SelectSeq(recs, LAMBDA r : InBand(r, target))
    IN IF in20 # <<>> THEN in20 ELSE NearestFirst(recs, target)

selected_recipe_any(recs, suitable) == Range(recs)

\* random.choice(suitable_recipes): every candidate is a possible outcome
selected_recipe(recs, suitable) == Range(suitable)

PoolWithout(recs, chosen) == SelectSeq(recs, LAMBDA r : r.id # chosen.id)

\* the list the next iteration filters: the loop never changes `recipes`
NextPool(recs, chosen) == recs

RECURSIVE PlanRuns(_, _, _)
\* every possible run of the loop over meal_distribution from slot i on:
\* a sequence of the iterations' locals
PlanRuns(user, recs, i) ==
    IF i > Len(MealTypes) THEN { <<>> }
    ELSE LET meal_type == MealTypes[i]
             target == SlotTarget(user, meal_type)
             suitable == suitable_recipes(recs, target)
             Slot(sel) == [meal_type |-> meal_type, target |-> target,
                           recipes |-> recs, suitable_recipes |-> suitable,
                           selected_recipe |-> sel]
         IN IF suitable = <<>>
            THEN { <<Slot(None)>> \o rest : rest \in PlanRuns(user, recs, i + 1) }
            ELSE UNION { { <<Slot(sel)>> \o rest :
                             rest \in PlanRuns(user, NextPool(recs, sel), i + 1) } :
                         sel \in selected_recipe(recs, suitable) }

\* the slots that got a recipe, in loop order
Filled(run) == SelectSeq(run, LAMBDA s : s.selected_recipe # None)

\* generated_plan.append({'meal_type': ..., 'recipe': ...})
GeneratedPlan(run) ==
    [k \in 1..Len(Filled(run)) |->
        [meal_type |-> Filled(run)[k].meal_type,
         recipe |-> Filled(run)[k].selected_recipe]]

\* the rows the loop's add_to_meal_plan calls insert
AddedPlanRows(run, user_id, date, seq) ==
    { MealPlanRow(seq + k, user_id, Filled(run)[k].selected_recipe.id,
                  Filled(run)[k].meal_type, date) : k \in 1..Len(Filled(run)) }

generate_daily_meal_plan(user_id) ==
    LET user == get_user(user_id)
        recs == saved_recipes(user_id, AnyFavorite)
    IN /\ meal_plan_seq + Len(MealTypes) <= MaxGenerations * Len(MealTypes)
       /\ plan_requests' = plan_requests
       /\ IF user = None
          THEN UNCHANGED <<meal_plan, meal_plan_seq, generated_plan, plan_slots>>
          ELSE IF recs = <<>>
          THEN /\ meal_plan' = clear_meal_plan(meal_plan, user_id, today)
               /\ generated_plan' = [user_id |-> user_id, plan |-> <<>>]
               /\ plan_slots' = <<>>
               /\ UNCHANGED meal_plan_seq
          ELSE \E run \in PlanRuns(user, recs, 1) :
               /\ meal_plan' = clear_meal_plan(meal_plan, user_id, today)
                      \cup AddedPlanRows(run, user_id, today, meal_plan_seq)
               /\ meal_plan_seq' = meal_plan_seq + Len(Filled(run))
               /\ generated_plan' = [user_id |-> user_id, plan |-> GeneratedPlan(run)]
               /\ plan_slots' = run
       /\ UNCHANGED <<users, recipes, recipes_seq, food_entries, food_seq,
                      water_entries, water_seq, weight_records, weight_seq,
                      shopping_cart, cart_seq, today, open_connections, ret,
                      historyVars, dialogVars>>

UserGoals(user_id, g) ==
    [id |-> user_id, name |-> "Ann", gender |-> "Male", age |-> 30, height |-> 180,
     weight |-> 70, activity_level |-> "Sedentary", goal |-> "Maintain",
     goal_calories |-> g.goal_calories,
     protein |-> g.protein, fat |-> g.fat, carbs |-> g.carbs,
     registration_complete |-> TRUE]

InitPlan ==
    /\ \E g \in [Users -> GoalProfiles \cup {None}] :
          users = [u \in Users |-> IF g[u] = None THEN None ELSE UserGoals(u, g[u])]
    /\ \E n \in 0..MaxRecipes :
       \E owner \in [1..n -> Users] :
       \E c \in [1..n -> RecipeCatalog] :
          /\ recipes = { RecipeRow(i, owner[i], c[i].name, "ingredients", "instructions",
                                 c[i].calories, c[i].protein, c[i].fat, c[i].carbs) :
                       i \in 1..n }
          /\ recipes_seq = n
    /\ meal_plan = {}
    /\ meal_plan_seq = 0
    /\ today = 1
    /\ generated_plan = [user_id |-> 0, plan |-> <<>>]
    /\ plan_slots = <<>>
    /\ plan_requests = NoRequests
    /\ food_entries = {}
    /\ food_seq = 0
    /\ water_entries = {}
    /\ water_seq = 0
    /\ weight_records = {}
    /\ weight_seq = 0
    /\ shopping_cart = {}
    /\ cart_seq = 0
    /\ open_connections = 0
    /\ ret = NoCall
    /\ saved_args = << >>
    /\ last_weight = [k \in Users \X Dates |-> 0]
    /\ shown_recipes = {}
    /\ shown_replacements = {}
    /\ fsm_state = StateNone
    /\ fsm_data = ClearedData
    /\ last_handler = ""
    /\ diary_date = NoDate

NextPlan == \E user_id \in Users : generate_daily_meal_plan(user_id)

SpecPlan == InitPlan /\ [][NextPlan]_vars

\* ------------------------------------------------------------------ food-diary conversation

\* The conversation of one user with the diary handlers of diary.py. Each
\* action is one handler run on an update its registration in
\* register_handlers selects: a callback with the handler's data, or a text
\* message in the handler's state.

\* callback_query.from_user.id
Me == 1

\* search_food: the mock table, one product under one query
Queries == {"egg", "xyz"}

search_food(query) ==
    IF query = "egg"
    THEN << [food_name |-> "egg", calories |-> 143, protein |-> 13, fat |-> 10, carbs |-> 1] >>
    ELSE << >>

\* process_food_entry keeps food_name and the defaults of the missing keys
simplified_results(search_results) ==
    [i \in DOMAIN search_results |->
        [food_name |-> search_results[i].food_name, food_type |-> "common"]]

\* what get_food_nutrients answers for a product: values per serving, or None
\* when the request fails
FoodInfos ==
    { [food_name |-> "egg", serving_weight_grams |-> 50, calories |-> 72,
       protein |-> 6, fat |-> 5, carbs |-> 1] }

\* the text of the amount message
AmountTexts == {"100", "abc"}

\* float(message.text); ValueError on a text that is no number
float(text) ==
    CASE text = "100" -> [ok |-> TRUE, v |-> 100]
      [] text = "300" -> [ok |-> TRUE, v |-> 300]
      [] text = "30" -> [ok |-> TRUE, v |-> 30]
      [] text = "180" -> [ok |-> TRUE, v |-> 180]
      [] OTHER -> [ok |-> FALSE, v |-> 0]

\* value * (weight / serving_weight_grams)
Scaled(value, weight, serving_weight_grams) == (value * weight) \div serving_weight_grams

\* the failure points of add_food_entry the handlers are run with
HandlerFails == {"none", "execute"}

\* a handler that ends with show_diary_for_date(message, date, user, state)
Shown(handler, state, data, date) ==
    /\ last_handler' = handler
    /\ fsm_state' = state
    /\ fsm_data' = data
    /\ diary_date' = date

\* a handler that sends no diary
Handled(handler, state, data) == Shown(handler, state, data, diary_date)

\* a handler that writes nothing
NoWrite == UNCHANGED <<tables, today, open_connections, ret, planVars, historyVars>>

\* a handler that calls add_food_entry; ret keeps that call
Adds(c, fail) ==
    /\ food_entries' = c.food_entries
    /\ food_seq' = c.food_seq
    /\ ret' = Return("add_food_entry", fail, c.value)
    /\ open_connections' = ConnectionsAfter(fail)
    /\ UNCHANGED <<users, recipes, recipes_seq, meal_plan, meal_plan_seq,
                   water_entries, water_seq, weight_records, weight_seq,
                   shopping_cart, cart_seq, today, planVars, historyVars>>

\* message "My diary": the registration check, then selected_date = today
show_diary ==
    /\ IF users[Me] = None \/ ~users[Me].registration_complete
       THEN Handled("show_diary", fsm_state, fsm_data)
       ELSE Shown("show_diary", fsm_state, [fsm_data EXCEPT !.selected_date = today], today)
    /\ NoWrite

\* callback date:prev, date:next, date:today
handle_date_selection(date_action) ==
    LET current_date == IF fsm_data.selected_date = NoDate THEN today
                        ELSE fsm_data.selected_date
        new_date == CASE date_action = "prev" -> current_date - 1
                      [] date_action = "next" -> current_date + 1
                      [] OTHER -> today
    IN /\ new_date \in Dates
       /\ Shown("handle_date_selection", fsm_state,
                [fsm_data EXCEPT !.selected_date = new_date], new_date)
       /\ NoWrite

\* callback add_food
start_food_entry ==
    /\ Handled("start_food_entry", "selecting_meal_type", fsm_data)
    /\ NoWrite

\* callback meal_type:<type>
handle_meal_type_selection(meal_type) ==
    /\ Handled("handle_meal_type_selection", "entering_food",
               [fsm_data EXCEPT !.meal_type = meal_type])
    /\ NoWrite

\* a text message in DiaryStates.entering_food
process_food_entry(text) ==
    /\ fsm_state = "entering_food"
    /\ IF search_food(text) = << >>
       THEN Handled("process_food_entry", fsm_state, fsm_data)
       ELSE Handled("process_food_entry", "selecting_food",
                    [fsm_data EXCEPT !.search_results = simplified_results(search_food(text))])
    /\ NoWrite

\* callback select_food:<index>; food_info is the answer of get_food_nutrients
handle_food_selection(index, food_info) ==
    /\ IF index >= Len(fsm_data.search_results) \/ food_info = None
       THEN Handled("handle_food_selection", fsm_state, fsm_data)
       ELSE Handled("handle_food_selection", "entering_amount",
                    [fsm_data EXCEPT !.selected_food = food_info])
    /\ NoWrite

\* a text message in DiaryStates.entering_amount
process_food_amount(text, fail) ==
    LET weight == float(text)
        selected_food == fsm_data.selected_food
        selected_date == IF fsm_data.selected_date = NoDate THEN today
                         ELSE fsm_data.selected_date
    IN /\ fsm_state = "entering_amount"
       /\ food_seq < MaxDiaryEntries
       /\ IF weight.ok /\ selected_food # None /\ fail = "none"
          THEN Shown("process_food_amount", StateNone, ClearedData, selected_date)
          ELSE Handled("process_food_amount", StateNone, ClearedData)
       /\ IF ~weight.ok \/ selected_food = None
          THEN NoWrite
          ELSE Adds(add_food_entry_call(Me, selected_date, fsm_data.meal_type,
                        selected_food.food_name,
                        Scaled(selected_food.calories, weight.v, selected_food.serving_weight_grams),
                        Scaled(selected_food.protein, weight.v, selected_food.serving_weight_grams),
                        Scaled(selected_food.fat, weight.v, selected_food.serving_weight_grams),
                        Scaled(selected_food.carbs, weight.v, selected_food.serving_weight_grams),
                        fail), fail)

\* callback confirm_food: calories, protein, fat and carbs are read from FSM
\* keys no handler writes, so they are None; without a selected food the
\* subscript selected_food['food_name'] raises and nothing else runs; after a
\* stored entry without a selected date show_diary_for_date raises and the
\* state is not cleared
confirm_food_entry(fail) ==
    /\ food_seq < MaxDiaryEntries
    /\ IF fsm_data.selected_food = None
       THEN /\ Handled("confirm_food_entry", fsm_state, fsm_data)
            /\ NoWrite
       ELSE /\ IF fail # "none"
               THEN Handled("confirm_food_entry", StateNone, ClearedData)
               ELSE IF fsm_data.selected_date = NoDate
               THEN Handled("confirm_food_entry", fsm_state, fsm_data)
               ELSE Shown("confirm_food_entry", StateNone, ClearedData,
                          fsm_data.selected_date)
            /\ Adds(add_food_entry_call(Me, fsm_data.selected_date, fsm_data.meal_type,
                        fsm_data.selected_food.food_name, Null, Null, Null, Null, fail),
                    fail)

\* callback cancel_food
cancel_food_entry ==
    /\ Handled("cancel_food_entry", "selecting_meal_type", fsm_data)
    /\ NoWrite

\* callback return_to_diary
return_to_diary ==
    /\ Shown("return_to_diary", StateNone, [ClearedData EXCEPT !.selected_date = today],
             today)
    /\ NoWrite

\* AVG(col): over the rows whose value is not NULL
Avg(rows, col) ==
    LET known == { r \in rows : r[col] # Null }
    IN IF known = {} THEN Null ELSE SetSum(known, col) \div Cardinality(known)

\* SELECT DISTINCT food_name, AVG(calories), ..., MAX(id) as id FROM food_entries
\* WHERE user_id = ? GROUP BY food_name
recent_foods(user_id) ==
    { [food_name |-> name,
       calories |-> Avg({ e \in food_entries : e.user_id = user_id /\ e.food_name = name }, "calories"),
       protein |-> Avg({ e \in food_entries : e.user_id = user_id /\ e.food_name = name }, "protein"),
       fat |-> Avg({ e \in food_entries : e.user_id = user_id /\ e.food_name = name }, "fat"),
       carbs |-> Avg({ e \in food_entries : e.user_id = user_id /\ e.food_name = name }, "carbs"),
       id |-> CHOOSE i \in { e.id : e \in food_entries } :
                 /\ \E e \in food_entries : e.id = i /\ e.user_id = user_id /\ e.food_name = name
                 /\ \A e \in food_entries :
                       (e.user_id = user_id /\ e.food_name = name) => e.id <= i] :
      name \in { e.food_name : e \in { x \in food_entries : x.user_id = user_id } } }

\* callback recent_food:<id>; after a stored entry the reply formats
\* meal_type.lower(), which raises when no meal type was chosen, and
\* show_diary_for_date raises when no date was selected; the state is then
\* not cleared
handle_recent_food_selection(food_id, fail) ==
    LET found == { f \in recent_foods(Me) : f.id = food_id }
    IN /\ food_seq < MaxDiaryEntries
       /\ IF found = {}
          THEN /\ Handled("handle_recent_food_selection", fsm_state, fsm_data)
               /\ NoWrite
          ELSE \E selected_food \in found :
               /\ Adds(add_food_entry_call(Me, fsm_data.selected_date, fsm_data.meal_type,
                           selected_food.food_name, selected_food.calories,
                           selected_food.protein, selected_food.fat, selected_food.carbs,
                           fail), fail)
               /\ IF fail # "none"
                  THEN Handled("handle_recent_food_selection", StateNone, ClearedData)
                  ELSE IF fsm_data.meal_type = NoMealType \/ fsm_data.selected_date = NoDate
                  THEN Handled("handle_recent_food_selection", fsm_state, fsm_data)
                  ELSE Shown("handle_recent_food_selection", StateNone, ClearedData,
                             fsm_data.selected_date)

\* callback clear_diary, the button under a diary message: asks for the
\* confirmation with the buttons confirm_clear and cancel_clear
clear_diary ==
    /\ diary_date # NoDate
    /\ Handled("clear_diary", fsm_state, fsm_data)
    /\ NoWrite

\* callback confirm_clear, the button of the question clear_diary just sent:
\* clear_daily_entries for the selected_date of the FSM data, then the diary
\* of that date; show_diary_for_date raises without a date
confirm_clear_diary(fail) ==
    LET selected_date == fsm_data.selected_date
        c == clear_daily_entries_call(Me, selected_date, fail)
    IN /\ last_handler = "clear_diary"
       /\ food_entries' = c.food_entries
       /\ ret' = Return("clear_daily_entries", fail, c.value)
       /\ open_connections' = ConnectionsAfter(fail)
       /\ IF fail = "none" /\ selected_date # NoDate
          THEN Shown("confirm_clear_diary", fsm_state, fsm_data, selected_date)
          ELSE Handled("confirm_clear_diary", fsm_state, fsm_data)
       /\ UNCHANGED <<users, recipes, recipes_seq, meal_plan, meal_plan_seq, food_seq,
                      water_entries, water_seq, weight_records, weight_seq,
                      shopping_cart, cart_seq, today, planVars, historyVars>>

\* callback cancel_clear, the other button of that question
cancel_clear_diary ==
    /\ last_handler = "clear_diary"
    /\ IF fsm_data.selected_date # NoDate
       THEN Shown("cancel_clear_diary", fsm_state, fsm_data, fsm_data.selected_date)
       ELSE Handled("cancel_clear_diary", fsm_state, fsm_data)
    /\ NoWrite

InitDiary ==
    /\ users = [u \in Users |->
                  IF u = Me THEN UserGoals(Me, CHOOSE g \in GoalProfiles : g.goal_calories = 2000)
                  ELSE None]
    /\ recipes = {}
    /\ recipes_seq = 0
    /\ meal_plan = {}
    /\ meal_plan_seq = 0
    /\ food_entries = {}
    /\ food_seq = 0
    /\ water_entries = {}
    /\ water_seq = 0
    /\ weight_records = {}
    /\ weight_seq = 0
    /\ shopping_cart = {}
    /\ cart_seq = 0
    /\ today = 1
    /\ open_connections = 0
    /\ ret = NoCall
    /\ generated_plan = [user_id |-> 0, plan |-> <<>>]
    /\ plan_slots = <<>>
    /\ plan_requests = NoRequests
    /\ saved_args = << >>
    /\ last_weight = [k \in Users \X Dates |-> 0]
    /\ shown_recipes = {}
    /\ shown_replacements = {}
    /\ fsm_state = StateNone
    /\ fsm_data = ClearedData
    /\ last_handler = ""
    /\ diary_date = NoDate

NextDiary ==
    \/ show_diary
    \/ \E a \in {"prev", "next", "today"} : handle_date_selection(a)
    \/ start_food_entry
    \/ \E m \in DiaryMealTypes : handle_meal_type_selection(m)
    \/ \E q \in Queries : process_food_entry(q)
    \/ \E i \in 0..1, info \in FoodInfos \cup {None} : handle_food_selection(i, info)
    \/ \E t \in AmountTexts, fail \in HandlerFails : process_food_amount(t, fail)
    \/ \E fail \in HandlerFails : confirm_food_entry(fail)
    \/ cancel_food_entry
    \/ return_to_diary
    \/ \E id \in 1..MaxDiaryEntries, fail \in HandlerFails :
          handle_recent_food_selection(id, fail)
    \/ clear_diary
    \/ \E fail \in HandlerFails : confirm_clear_diary(fail)
    \/ cancel_clear_diary

SpecDiary == InitDiary /\ [][NextDiary]_vars

\* ------------------------------------------------------------------ message dispatch

\* router.message.register(handler, filter) of register_handlers, in
\* registration order. A state filter names its StatesGroup, except for
\* DiaryStates, whose states are written as in fsm_state. Button texts and
\* commands: "Consultation" = "🩺 Консультация с диетологом", "Articles" =
\* "📚 Статьи", "Report" = "📈 Отчет", "Cart" = "🛒 Продуктовая корзина",
\* "About" = "ℹ️ О боте", "Register" = "🚀 Зарегистрироваться", "Profile" =
\* "👤 Профиль", "Diary" = "📖 Мой дневник", "Plan" = "🍽 Рацион", "Recipes" =
\* "🍳 Рецепты", "Water" = "💧 Трекер воды", "Statistics" = "📊 Статистика".
MessageRegistrations ==
    << [handler |-> "process_search_query", filter |-> "state", arg |-> "RecipeStates:searching"],
       [handler |-> "process_recipe_name", filter |-> "state", arg |-> "RecipeStates:entering_name"],
       [handler |-> "process_recipe_ingredients", filter |-> "state", arg |-> "RecipeStates:entering_ingredients"],
       [handler |-> "process_recipe_instructions", filter |-> "state", arg |-> "RecipeStates:entering_instructions"],
       [handler |-> "process_recipe_calories", filter |-> "state", arg |-> "RecipeStates:entering_calories"],
       [handler |-> "process_recipe_protein", filter |-> "state", arg |-> "RecipeStates:entering_protein"],
       [handler |-> "process_recipe_fat", filter |-> "state", arg |-> "RecipeStates:entering_fat"],
       [handler |-> "process_recipe_carbs", filter |-> "state", arg |-> "RecipeStates:entering_carbs"],
       [handler |-> "show_consultation_menu", filter |-> "text", arg |-> "Consultation"],
       [handler |-> "show_articles_menu", filter |-> "text", arg |-> "Articles"],
       [handler |-> "show_weight_reports_menu", filter |-> "text", arg |-> "Report"],
       [handler |-> "process_weight_input", filter |-> "state", arg |-> "WeightReportStates:entering_weight"],
       [handler |-> "show_shopping_cart_menu", filter |-> "text", arg |-> "Cart"],
       [handler |-> "process_manual_item", filter |-> "state", arg |-> "ShoppingCartStates:adding_manual_item"],
       [handler |-> "process_water_amount", filter |-> "state", arg |-> "WaterStates:entering_amount"],
       [handler |-> "process_water_goal", filter |-> "state", arg |-> "WaterStates:setting_goal"],
       [handler |-> "cmd_start", filter |-> "text", arg |-> "/start"],
       [handler |-> "cmd_help", filter |-> "text", arg |-> "/help"],
       [handler |-> "cmd_about", filter |-> "text", arg |-> "/about"],
       [handler |-> "about_bot", filter |-> "text", arg |-> "About"],
       [handler |-> "start_registration", filter |-> "text", arg |-> "Register"],
       [handler |-> "show_about", filter |-> "text", arg |-> "About"],
       [handler |-> "process_name", filter |-> "state", arg |-> "RegistrationStates:waiting_for_name"],
       [handler |-> "process_gender", filter |-> "state", arg |-> "RegistrationStates:waiting_for_gender"],
       [handler |-> "process_age", filter |-> "state", arg |-> "RegistrationStates:waiting_for_age"],
       [handler |-> "process_height", filter |-> "state", arg |-> "RegistrationStates:waiting_for_height"],
       [handler |-> "process_weight", filter |-> "state", arg |-> "RegistrationStates:waiting_for_weight"],
       [handler |-> "process_activity", filter |-> "state", arg |-> "RegistrationStates:waiting_for_activity"],
       [handler |-> "process_goal", filter |-> "state", arg |-> "RegistrationStates:waiting_for_goal"],
       [handler |-> "show_profile", filter |-> "text", arg |-> "Profile"],
       [handler |-> "show_diary", filter |-> "text", arg |-> "Diary"],
       [handler |-> "show_meal_planner", filter |-> "text", arg |-> "Plan"],
       [handler |-> "show_recipes_menu", filter |-> "text", arg |-> "Recipes"],
       [handler |-> "water_tracker", filter |-> "text", arg |-> "Water"],
       [handler |-> "show_statistics", filter |-> "text", arg |-> "Statistics"],
       [handler |-> "show_consultation", filter |-> "text", arg |-> "Consultation"],
       [handler |-> "show_shopping_cart", filter |-> "text", arg |-> "Cart"],
       [handler |-> "show_articles", filter |-> "text", arg |-> "Articles"],
       [handler |-> "show_reports", filter |-> "text", arg |-> "Report"],
       [handler |-> "process_food_entry", filter |-> "state", arg |-> "entering_food"],
       [handler |-> "process_food_amount", filter |-> "state", arg |-> "entering_amount"],
       [handler |-> "process_water_amount", filter |-> "state", arg |-> "WaterStates:entering_amount"],
       [handler |-> "process_water_goal", filter |-> "state", arg |-> "WaterStates:setting_goal"],
       [handler |-> "process_new_weight", filter |-> "state", arg |-> "ProfileStates:editing_weight"],
       [handler |-> "process_new_goal", filter |-> "state", arg |-> "ProfileStates:editing_goal"],
       [handler |-> "process_new_activity", filter |-> "state", arg |-> "ProfileStates:editing_activity"] >>

\* no registration matches: the update is dropped
Unhandled == "unhandled"

MessageMatches(reg, state, text) ==
    \/ reg.filter = "state" /\ reg.arg = state
    \/ reg.filter = "text" /\ reg.arg = text

\* the first registration whose filter passes handles the message
MessageHandler(state, text) ==
    LET hits == { i \in DOMAIN MessageRegistrations :
                    MessageMatches(MessageRegistrations[i], state, text) }
    IN IF hits = {} THEN Unhandled
       ELSE MessageRegistrations[CHOOSE i \in hits : \A j \in hits : i <= j].handler

\* ------------------------------------------------------------------ recipe-creation conversation

\* the states RecipeStates gives the creation flow, in the order of the flow
RecipeFlowStates ==
    << "RecipeStates:entering_name", "RecipeStates:entering_ingredients",
       "RecipeStates:entering_instructions", "RecipeStates:entering_calories",
       "RecipeStates:entering_protein", "RecipeStates:entering_fat",
       "RecipeStates:entering_carbs", "RecipeStates:entering_photo",
       "RecipeStates:confirming" >>

\* what the user types: a word, a number, "skip" = "пропустить", "yes" = "да"
RecipeTexts == {"soup", "300", "skip", "yes"}

\* FSM data of the flow before anything is entered
ClearedRecipeData ==
    [name |-> "", ingredients |-> "", instructions |-> "",
     calories |-> Null, protein |-> Null, fat |-> Null, carbs |-> Null]

\* callback recipe:create, through handle_recipes_callback
start_recipe_creation ==
    /\ Handled("start_recipe_creation", "RecipeStates:entering_name", ClearedRecipeData)
    /\ NoWrite

\* a text field of the flow: strip(), reject the empty text, store, next state
RecipeTextStep(handler, key, next_state, text) ==
    /\ Handled(handler, next_state, [fsm_data EXCEPT ![key] = text])
    /\ NoWrite

\* a numeric field of the flow: float(text); ValueError keeps state and data
RecipeNumberStep(handler, key, next_state, text) ==
    /\ IF float(text).ok
       THEN Handled(handler, next_state, [fsm_data EXCEPT ![key] = float(text).v])
       ELSE Handled(handler, fsm_state, fsm_data)
    /\ NoWrite

process_recipe_name(text) ==
    /\ MessageHandler(fsm_state, text) = "process_recipe_name"
    /\ RecipeTextStep("process_recipe_name", "name", "RecipeStates:entering_ingredients", text)

process_recipe_ingredients(text) ==
    /\ MessageHandler(fsm_state, text) = "process_recipe_ingredients"
    /\ RecipeTextStep("process_recipe_ingredients", "ingredients",
                   "RecipeStates:entering_instructions", text)

process_recipe_instructions(text) ==
    /\ MessageHandler(fsm_state, text) = "process_recipe_instructions"
    /\ RecipeTextStep("process_recipe_instructions", "instructions",
                   "RecipeStates:entering_calories", text)

process_recipe_calories(text) ==
    /\ MessageHandler(fsm_state, text) = "process_recipe_calories"
    /\ RecipeNumberStep("process_recipe_calories", "calories", "RecipeStates:entering_protein", text)

process_recipe_protein(text) ==
    /\ MessageHandler(fsm_state, text) = "process_recipe_protein"
    /\ RecipeNumberStep("process_recipe_protein", "protein", "RecipeStates:entering_fat", text)

process_recipe_fat(text) ==
    /\ MessageHandler(fsm_state, text) = "process_recipe_fat"
    /\ RecipeNumberStep("process_recipe_fat", "fat", "RecipeStates:entering_carbs", text)

process_recipe_carbs(text) ==
    /\ MessageHandler(fsm_state, text) = "process_recipe_carbs"
    /\ RecipeNumberStep("process_recipe_carbs", "carbs", "RecipeStates:entering_photo", text)

\* a message no registration matches: nothing runs
unhandled_message(text) ==
    /\ MessageHandler(fsm_state, text) = Unhandled
    /\ Handled(Unhandled, fsm_state, fsm_data)
    /\ NoWrite

\* callback recipe:save: save_recipe_handler gets the CallbackQuery as its
\* message argument and message.text raises AttributeError before anything
\* is saved or cleared
save_recipe_handler ==
    /\ Handled("save_recipe_handler", fsm_state, fsm_data)
    /\ NoWrite

\* callback recipe:cancel
cancel_recipe_creation ==
    /\ Handled("cancel_recipe_creation", StateNone, ClearedRecipeData)
    /\ NoWrite

InitRecipeFlow ==
    /\ users = [u \in Users |->
                  IF u = Me THEN UserGoals(Me, CHOOSE g \in GoalProfiles : g.goal_calories = 2000)
                  ELSE None]
    /\ recipes = {}
    /\ recipes_seq = 0
    /\ meal_plan = {}
    /\ meal_plan_seq = 0
    /\ food_entries = {}
    /\ food_seq = 0
    /\ water_entries = {}
    /\ water_seq = 0
    /\ weight_records = {}
    /\ weight_seq = 0
    /\ shopping_cart = {}
    /\ cart_seq = 0
    /\ today = 1
    /\ open_connections = 0
    /\ ret = NoCall
    /\ generated_plan = [user_id |-> 0, plan |-> <<>>]
    /\ plan_slots = <<>>
    /\ plan_requests = NoRequests
    /\ saved_args = << >>
    /\ last_weight = [k \in Users \X Dates |-> 0]
    /\ shown_recipes = {}
    /\ shown_replacements = {}
    /\ fsm_state = StateNone
    /\ fsm_data = ClearedRecipeData
    /\ last_handler = ""
    /\ diary_date = NoDate

NextRecipeFlow ==
    \/ start_recipe_creation
    \/ \E t \in RecipeTexts : process_recipe_name(t)
    \/ \E t \in RecipeTexts : process_recipe_ingredients(t)
    \/ \E t \in RecipeTexts : process_recipe_instructions(t)
    \/ \E t \in RecipeTexts : process_recipe_calories(t)
    \/ \E t \in RecipeTexts : process_recipe_protein(t)
    \/ \E t \in RecipeTexts : process_recipe_fat(t)
    \/ \E t \in RecipeTexts : process_recipe_carbs(t)
    \/ \E t \in RecipeTexts : unhandled_message(t)
    \/ save_recipe_handler
    \/ cancel_recipe_creation

SpecRecipeFlow == InitRecipeFlow /\ [][NextRecipeFlow]_vars

\* ------------------------------------------------------------------ meal plan table

add_to_meal_plan(user_id, recipe_id, meal_type, date, fail) ==
    /\ meal_plan_seq < MaxPlanRows
    /\ meal_plan' = IF Committed(fail)
                    THEN meal_plan \cup { MealPlanRow(meal_plan_seq + 1, user_id,
                                                      recipe_id, meal_type, date) }
                    ELSE meal_plan
    /\ meal_plan_seq' = IF Committed(fail) THEN meal_plan_seq + 1 ELSE meal_plan_seq
    /\ ret' = Return("add_to_meal_plan", fail,
                     IF fail = "none" THEN pyInt(meal_plan_seq + 1) ELSE pyNone)
    /\ open_connections' = ConnectionsAfter(fail)
    /\ UNCHANGED <<users, recipes, recipes_seq, food_entries, food_seq,
                   water_entries, water_seq, weight_records, weight_seq,
                   shopping_cart, cart_seq, today, planVars, dialogVars, historyVars>>

\* ORDER BY CASE mp.meal_type WHEN ... THEN 1 ... ELSE 5 END
MealRank(meal_type) ==
    CASE meal_type = "breakfast" -> 1
      [] meal_type = "lunch" -> 2
      [] meal_type = "dinner" -> 3
      [] meal_type = "snack" -> 4
      [] OTHER -> 5

\* SELECT mp.id, mp.meal_type, r.name, r.calories, r.protein, r.fat, r.carbs
\* FROM meal_plan mp JOIN recipes r ON mp.recipe_id = r.id: the columns of a row
PlanJoinRow(p, r) ==
    [id |-> p.id, meal_type |-> p.meal_type, name |-> r.name, calories |-> r.calories,
     protein |-> r.protein, fat |-> r.fat, carbs |-> r.carbs]

RECURSIVE OrderPlan(_)
OrderPlan(rows) ==
    IF rows = {} THEN <<>>
    ELSE LET Key(r) == 1000 * MealRank(r.meal_type) + r.id
             first == CHOOSE r \in rows : \A q \in rows : Key(r) <= Key(q)
         IN <<first>> \o OrderPlan(rows \ {first})

\* the joined rows of a user's date in a meal_plan table
JoinedPlan(plan, user_id, date) ==
    OrderPlan({ PlanJoinRow(pr[1], pr[2]) : pr \in
                  { pr \in plan \X recipes :
                      /\ pr[1].recipe_id = pr[2].id
                      /\ pr[1].user_id = user_id
                      /\ pr[1].date = date } })

\* get_daily_meal_plan
daily_meal_plan(user_id, date) == JoinedPlan(meal_plan, user_id, date)

\* ------------------------------------------------------------------ shopping-cart conversation

\* the texts a recipe's ingredients field holds in this model
IngredientTexts == {"milk - 200 g", "salt"}

\* parse_ingredients on those texts: "name - quantity unit" gives the capitalised
\* name with that quantity; a line without a quantity is taken as it is, 100 g
parse_ingredients(ingredients_text) ==
    CASE ingredients_text = "milk - 200 g" ->
            << [product_name |-> "Milk", quantity |-> 200, unit |-> "g"] >>
      [] ingredients_text = "salt" ->
            << [product_name |-> "Salt", quantity |-> 100, unit |-> "g"] >>
      [] OTHER -> << >>

\* str.capitalize() on the names of FoodCatalog
Capitalize(name) ==
    CASE name = "bread" -> "Bread"
      [] name = "cheese" -> "Cheese"
      [] OTHER -> name

\* max(50, int(entry['calories'] / 3))
estimated_grams(calories) ==
    IF calories \div 3 > 50 THEN calories \div 3 ELSE 50

\* all_products is a dict: here the sequence of its items in insertion order
HasProduct(all_products, name) ==
    \E i \in DOMAIN all_products : all_products[i].product_name = name

\* all_products[name] = details: replaces the item of that key or appends one
SetProduct(all_products, item) ==
    IF HasProduct(all_products, item.product_name)
    THEN [i \in DOMAIN all_products |->
             IF all_products[i].product_name = item.product_name
             THEN item ELSE all_products[i]]
    ELSE Append(all_products, item)

GetProduct(all_products, name) ==
    all_products[CHOOSE i \in DOMAIN all_products : all_products[i].product_name = name]

RECURSIVE merge_products(_, _)
merge_products(target_dict, source_items) ==
    IF source_items = << >> THEN target_dict
    ELSE LET details == Head(source_items)
             name == details.product_name
             merged ==
                IF HasProduct(target_dict, name)
                THEN IF GetProduct(target_dict, name).unit = details.unit
                     THEN SetProduct(target_dict,
                             [details EXCEPT !.quantity =
                                 GetProduct(target_dict, name).quantity + details.quantity])
                     ELSE SetProduct(target_dict,
                             [details EXCEPT !.product_name =
                                 name \o " (" \o details.unit \o ")"])
                ELSE Append(target_dict, details)
         IN merge_products(merged, Tail(source_items))

RECURSIVE PlanProducts(_, _)
\* for meal in meal_plan: the ingredients of the meal's recipe, when the row
\* has a recipe_id
PlanProducts(all_products, meals) ==
    IF meals = << >> THEN all_products
    ELSE LET meal == Head(meals)
             recipe == recipe_details(meal.recipe_id)
             next ==
                IF "recipe_id" \in DOMAIN meal /\ meal.recipe_id # 0
                THEN IF recipe # pyNone /\ recipe.v.ingredients # ""
                     THEN merge_products(all_products,
                                         parse_ingredients(recipe.v.ingredients))
                     ELSE all_products
                ELSE all_products
         IN PlanProducts(next, Tail(meals))

RECURSIVE DiaryProducts(_, _)
\* for entry in diary_entries: the entry's food, its grams estimated from calories
DiaryProducts(all_products, diary_entries) ==
    IF diary_entries = << >> THEN all_products
    ELSE LET entry == Head(diary_entries)
             product_name == Capitalize(entry.food_name)
             grams == estimated_grams(entry.calories)
             next ==
                IF HasProduct(all_products, product_name)
                THEN SetProduct(all_products,
                        [GetProduct(all_products, product_name) EXCEPT
                            !.quantity = @ + grams])
                ELSE Append(all_products,
                        [product_name |-> product_name, quantity |-> grams, unit |-> "g"])
         IN DiaryProducts(next, Tail(diary_entries))

RECURSIVE CollectProducts(_, _, _, _)
\* for day_offset in range(days): the plan, then the diary of today + day_offset
CollectProducts(all_products, user_id, day_offset, days) ==
    IF day_offset >= days THEN all_products
    ELSE LET current_date == today + day_offset
             from_plan == PlanProducts(all_products,
                                       daily_meal_plan(user_id, current_date))
             from_diary == DiaryProducts(from_plan, daily_entries(user_id, current_date))
         IN CollectProducts(from_diary, user_id, day_offset + 1, days)

\* f"на {days} дн." if days > 1 else "на сегодня", transliterated
period_text(days) ==
    IF days > 1 THEN "na " \o ToString(days) \o " dn." ELSE "na segodnya"

\* Python's "sub in s" on strings
Contains(s, sub) ==
    \E i \in 1..(Len(s) - Len(sub) + 1) : SubSeq(s, i, i + Len(sub) - 1) = sub

\* the periods the keyboard of request_generation_period offers
PeriodDays == {1, 3, 7}

CartOf(user_id) == { r \in shopping_cart : r.user_id = user_id }

\* generate_shopping_cart: clears the user's cart, collects the products and
\* adds each of them with the period text; the conversation state is cleared
generate_shopping_cart(user_id, days) ==
    LET all_products == CollectProducts(<< >>, user_id, 0, days)
    IN /\ cart_seq + Len(all_products) <= MaxCartSeq
       /\ shopping_cart' =
             (shopping_cart \ CartOf(user_id))
             \cup { [id |-> cart_seq + i, user_id |-> user_id,
                     product_name |-> all_products[i].product_name,
                     quantity |-> all_products[i].quantity,
                     unit |-> all_products[i].unit,
                     period |-> period_text(days), is_purchased |-> 0,
                     source |-> "manual"] : i \in DOMAIN all_products }
       /\ cart_seq' = cart_seq + Len(all_products)
       /\ ret' = IF all_products = << >>
                 THEN Return("get_daily_entries", "none",
                             pyList(daily_entries(user_id, today + days - 1)))
                 ELSE Return("add_shopping_cart_item", "none", pyBool(TRUE))
       /\ open_connections' = open_connections
       /\ Handled("generate_shopping_cart", StateNone, ClearedData)
       /\ UNCHANGED <<users, recipes, recipes_seq, meal_plan, meal_plan_seq,
                      food_entries, food_seq, water_entries, water_seq,
                      weight_records, weight_seq, today, planVars, historyVars>>

\* request_generation_period: shows the periods
request_generation_period ==
    /\ Handled("request_generation_period", "ShoppingCartStates:selecting_period",
               fsm_data)
    /\ ret' = Return("get_shopping_cart_items", "none",
                     pyList(OrderCart(CartOf(Me))))
    /\ UNCHANGED <<tables, today, open_connections, planVars, historyVars>>

\* callback cart:generate:<days>
cart_generate(days) ==
    /\ days \in PeriodDays
    /\ generate_shopping_cart(Me, days)

\* the days cart:refresh reads off the period of the first cart item
refresh_days(period) ==
    IF Contains(period, "segodnya") THEN 1
    ELSE IF Contains(period, "3") THEN 3
    ELSE IF Contains(period, "nedelyu") THEN 7
    ELSE 1

\* callback cart:refresh
cart_refresh ==
    LET cart_items == OrderCart(CartOf(Me))
    IN \/ /\ cart_items # << >>
          /\ generate_shopping_cart(Me, refresh_days(cart_items[1].period))
       \/ /\ cart_items = << >>
          /\ request_generation_period

\* callback cart:clear
cart_clear ==
    /\ CartOf(Me) # {}
    /\ shopping_cart' = shopping_cart \ CartOf(Me)
    /\ ret' = Return("get_shopping_cart_items", "none", pyList(<< >>))
    /\ Handled("show_shopping_cart_menu_callback", fsm_state, fsm_data)
    /\ UNCHANGED <<users, recipes, recipes_seq, meal_plan, meal_plan_seq,
                   food_entries, food_seq, water_entries, water_seq,
                   weight_records, weight_seq, cart_seq, today, open_connections,
                   planVars, historyVars>>

\* a diary entry of the user, written through the diary
cart_diary_entry(date, food) ==
    /\ food_seq < MaxDiaryEntries
    /\ add_food_entry(Me, date, "breakfast", food, "none")

\* a recipe of the user with an ingredients text
cart_recipe(text) ==
    /\ text \in IngredientTexts
    /\ LET c == CHOOSE c \in RecipeInputs : c.name = "omelette"
       IN save_recipe(Me, c.name, text, "instructions",
                      c.calories, c.protein, c.fat, c.carbs, "none")

\* the recipe put on today's plan
cart_plan_entry(recipe_id) ==
    /\ \E r \in recipes : r.id = recipe_id
    /\ add_to_meal_plan(Me, recipe_id, "breakfast", today, "none")

NextCartFlow ==
    \/ \E text \in IngredientTexts : cart_recipe(text)
    \/ \E id \in RecipeIds : cart_plan_entry(id)
    \/ \E d \in Dates, food \in FoodCatalog : cart_diary_entry(d, food)
    \/ \E days \in PeriodDays : cart_generate(days)
    \/ cart_refresh
    \/ cart_clear

SpecCartFlow == InitDiary /\ [][NextCartFlow]_vars

\* ------------------------------------------------------------------ meal-plan conversation

\* user_data.get('selected_date', datetime.now().strftime("%Y-%m-%d"))
SelectedDateOrToday == IF fsm_data.selected_date = NoDate THEN today ELSE fsm_data.selected_date

\* show_daily_plan: state.update_data(selected_date=selected_date), then the plan
\* of the date is read and shown
show_daily_plan(handler, state, data, selected_date) ==
    /\ Handled(handler, state, [data EXCEPT !.selected_date = selected_date])
    /\ ret' = Return("get_daily_meal_plan", "none",
                     pyList(daily_meal_plan(Me, selected_date)))

PlanDateActions == {"prev", "next", "today"}

\* callback plan_date:<action>
handle_plan_date_selection(date_action) ==
    /\ date_action \in PlanDateActions
    /\ date_action = "prev" => SelectedDateOrToday - 1 \in Dates
    /\ date_action = "next" => SelectedDateOrToday + 1 \in Dates
    /\ show_daily_plan("handle_plan_date_selection", fsm_state, fsm_data,
                       CASE date_action = "prev" -> SelectedDateOrToday - 1
                         [] date_action = "next" -> SelectedDateOrToday + 1
                         [] OTHER -> today)
    /\ UNCHANGED <<tables, today, open_connections, planVars, historyVars>>

\* callback plan:add
start_add_to_plan ==
    /\ Handled("start_add_to_plan", "MealPlanStates:selecting_meal_type", fsm_data)
    /\ NoWrite

\* the meal type the user plans for
PlanMealTypes == {"lunch"}

\* meal_planner.handle_meal_type_selection, callback meal_type:<meal type> outside
\* the diary states: without saved recipes the state is cleared, otherwise the
\* keyboard shows a button plan_recipe:<id> for each saved recipe
plan_meal_type_selection(meal_type) ==
    /\ meal_type \in PlanMealTypes
    /\ IF saved_recipes(Me, AnyFavorite) = << >>
       THEN /\ Handled("handle_meal_type_selection", StateNone, ClearedData)
            /\ shown_recipes' = shown_recipes
       ELSE /\ Handled("handle_meal_type_selection", "MealPlanStates:selecting_recipe",
                       [fsm_data EXCEPT !.meal_type = meal_type])
            /\ shown_recipes' = shown_recipes
                                \cup { r.id : r \in Range(saved_recipes(Me, AnyFavorite)) }
    /\ ret' = Return("get_saved_recipes", "none", pyList(saved_recipes(Me, AnyFavorite)))
    /\ UNCHANGED <<tables, today, open_connections, planVars, saved_args, last_weight,
                   shown_replacements>>

\* callback plan_recipe:<recipe id> of a button shown before: the recipe goes on
\* the plan of the selected date; with a meal type the state is cleared and the plan shown, without one
\* meal_type.lower() raises after the row is written
handle_recipe_selection(recipe_id) ==
    /\ recipe_id \in shown_recipes
    /\ meal_plan_seq < MaxPlanRows
    /\ meal_plan' = meal_plan \cup { MealPlanRow(meal_plan_seq + 1, Me, recipe_id,
                                                 fsm_data.meal_type, SelectedDateOrToday) }
    /\ meal_plan_seq' = meal_plan_seq + 1
    /\ IF fsm_data.meal_type = NoMealType
       THEN /\ Handled("handle_recipe_selection", fsm_state, fsm_data)
            /\ ret' = Return("add_to_meal_plan", "none", pyInt(meal_plan_seq + 1))
       ELSE /\ last_handler' = "handle_recipe_selection"
            /\ diary_date' = diary_date
            /\ fsm_state' = StateNone
            /\ fsm_data' = [ClearedData EXCEPT !.selected_date = SelectedDateOrToday]
            /\ ret' = Return("get_daily_meal_plan", "none",
                             pyList(JoinedPlan(meal_plan', Me, SelectedDateOrToday)))
    /\ UNCHANGED <<users, recipes, recipes_seq, food_entries, food_seq,
                   water_entries, water_seq, weight_records, weight_seq,
                   shopping_cart, cart_seq, today, open_connections,
                   planVars, historyVars>>

\* callback delete_plan_entry:<plan id>: DELETE FROM meal_plan WHERE id = ?
delete_plan_entry(plan_id) ==
    /\ meal_plan' = { p \in meal_plan : p.id # plan_id }
    /\ last_handler' = "delete_plan_entry"
    /\ diary_date' = diary_date
    /\ fsm_state' = fsm_state
    /\ fsm_data' = [fsm_data EXCEPT !.selected_date = SelectedDateOrToday]
    /\ ret' = Return("get_daily_meal_plan", "none",
                     pyList(JoinedPlan(meal_plan', Me, SelectedDateOrToday)))
    /\ UNCHANGED <<users, recipes, recipes_seq, meal_plan_seq, food_entries, food_seq,
                   water_entries, water_seq, weight_records, weight_seq,
                   shopping_cart, cart_seq, today, open_connections,
                   planVars, historyVars>>

\* callback confirm_clear_plan:<date>
confirm_clear_plan(date) ==
    /\ meal_plan' = clear_meal_plan(meal_plan, Me, date)
    /\ last_handler' = "confirm_clear_plan"
    /\ diary_date' = diary_date
    /\ fsm_state' = fsm_state
    /\ fsm_data' = [fsm_data EXCEPT !.selected_date = date]
    /\ ret' = Return("get_daily_meal_plan", "none", pyList(<< >>))
    /\ UNCHANGED <<users, recipes, recipes_seq, meal_plan_seq, food_entries, food_seq,
                   water_entries, water_seq, weight_records, weight_seq,
                   shopping_cart, cart_seq, today, open_connections,
                   planVars, historyVars>>

RECURSIVE PlanToDiary(_, _, _)
\* for entry in daily_plan: recipe = get_recipe_details(entry['recipe_id']), then
\* add_food_entry with the entry's meal type and the recipe's values; a row
\* without the key recipe_id raises KeyError and ends the loop
PlanToDiary(call, daily_plan, date) ==
    IF daily_plan = << >> THEN call
    ELSE LET entry == Head(daily_plan)
         IN IF "recipe_id" \notin DOMAIN entry
            THEN [call EXCEPT !.raised = TRUE]
            ELSE LET recipe == recipe_details(entry.recipe_id)
                     id == call.food_seq + 1
                 IN PlanToDiary(
                       IF recipe = pyNone THEN call
                       ELSE [call EXCEPT
                               !.food_entries = @ \cup
                                  { FoodRow(id, Me, date, entry.meal_type, recipe.v.name,
                                            recipe.v.calories, recipe.v.protein,
                                            recipe.v.fat, recipe.v.carbs) },
                               !.food_seq = id],
                       Tail(daily_plan), date)

\* the body transfer_plan_to_diary and save_plan_to_diary share
PlanTransfer(handler, date) ==
    LET daily_plan == daily_meal_plan(Me, date)
        call == PlanToDiary([food_entries |-> food_entries, food_seq |-> food_seq,
                             raised |-> FALSE], daily_plan, date)
    IN /\ food_seq + Len(daily_plan) <= MaxFoodEntries
       /\ food_entries' = call.food_entries
       /\ food_seq' = call.food_seq
       /\ ret' = IF call.food_seq = food_seq
                 THEN Return("get_daily_meal_plan", "none", pyList(daily_plan))
                 ELSE Return("add_food_entry", "none", pyInt(call.food_seq))
       /\ Handled(handler, fsm_state, fsm_data)
       /\ UNCHANGED <<users, recipes, recipes_seq, meal_plan, meal_plan_seq,
                      water_entries, water_seq, weight_records, weight_seq,
                      shopping_cart, cart_seq, today, open_connections,
                      planVars, historyVars>>

\* callback plan:to_diary
transfer_plan_to_diary ==
    /\ TRUE
    /\ PlanTransfer("transfer_plan_to_diary", SelectedDateOrToday)

\* callback save_plan_to_diary:<date>
save_plan_to_diary(date) ==
    /\ date \in Dates
    /\ PlanTransfer("save_plan_to_diary", date)

\* a recipe the user saved
plan_recipe_saved(c) ==
    /\ c \in RecipeInputs
    /\ save_recipe(Me, c.name, "ingredients", "instructions",
                   c.calories, c.protein, c.fat, c.carbs, "none")

\* a recipe deleted through the recipes menu
plan_recipe_deleted(recipe_id) ==
    /\ \E r \in recipes : r.id = recipe_id
    /\ delete_recipe(recipe_id, "none")

PlanIds == 1..MaxPlanRows

NextMealPlan ==
    \/ \E c \in RecipeInputs : plan_recipe_saved(c)
    \/ \E id \in RecipeIds : plan_recipe_deleted(id)
    \/ \E a \in PlanDateActions : handle_plan_date_selection(a)
    \/ start_add_to_plan
    \/ \E m \in PlanMealTypes : plan_meal_type_selection(m)
    \/ \E id \in RecipeIds : handle_recipe_selection(id)
    \/ \E id \in PlanIds : delete_plan_entry(id)
    \/ \E d \in Dates : confirm_clear_plan(d)
    \/ transfer_plan_to_diary
    \/ \E d \in Dates : save_plan_to_diary(d)

SpecMealPlan == InitDiary /\ [][NextMealPlan]_vars

\* ------------------------------------------------------------------ registration and profile

\* the texts of start_keyboard's buttons: "Go" = "🚀 Погнали!", "About" = "ℹ️ О боте"
start_keyboard == <<"Go", "About">>

\* a name of 51 characters
LongName == "abcdefghijklmnopqrstuvwxyzabcdefghijklmnopqrstuvwxyz"

\* what the user sends: commands, button texts and answers. "Male" = "Мужчина",
\* "Sedentary" is a key of ACTIVITY_LEVELS, "Maintain" = "🔄 Поддержание текущего веса"
RegistrationTexts ==
    {"/start", "Go", "About", "Register", LongName, "Male", "30", "180", "Sedentary",
     "Maintain"}

Genders == {"Male", "Female"}

ActivityLevels == {"Sedentary"}

ValidGoals == {"Lose", "Gain", "Maintain"}

\* int(message.text.strip()); ValueError on a text that is no integer
int(text) ==
    CASE text = "30" -> [ok |-> TRUE, v |-> 30]
      [] text = "180" -> [ok |-> TRUE, v |-> 180]
      [] OTHER -> [ok |-> FALSE, v |-> 0]

\* the data the registration flow keeps in the FSMContext
ClearedRegistration ==
    [name |-> NullText, gender |-> NullText, age |-> Null, height |-> Null,
     weight |-> Null, activity_level |-> NullText, goal |-> NullText]

\* calculate_tdee in whole kcal: Mifflin-St Jeor times the activity multiplier
\* (ACTIVITY_LEVELS.get(activity_level, 1.2): the default)
calculate_tdee(weight, height, age, activity_level, sex) ==
    LET bmr100 == 1000 * weight + 625 * height - 500 * age
                  + (IF sex = "Male" THEN 500 ELSE 0 - 16100)
    IN (bmr100 * 12) \div 1000

\* get_goal_calories: USER_GOALS.get(goal, 1.0), the default
get_goal_calories(tdee, goal) == tdee

\* calculate_macronutrients in whole grams
calculate_macronutrients(calories, weight, goal) ==
    LET protein_per_kg10 == CASE goal = "Lose" -> 22 [] goal = "Gain" -> 18 [] OTHER -> 20
        protein == (weight * protein_per_kg10) \div 10
        fat_cal == calories \div 4
    IN [protein |-> protein, fat |-> fat_cal \div 9,
        carbs |-> (calories - protein * 4 - fat_cal) \div 4]

\* a handler of the registration conversation: update_user(user_id, **kwargs)
\* succeeds (it updates nothing when the user has no row), the conversation goes
\* to state with data
RegistrationStep(handler, kwargs, state, data) ==
    /\ users' = IF users[Me] = None THEN users
                ELSE [users EXCEPT ![Me] = UpdatedUser(users[Me], kwargs)]
    /\ ret' = Return("update_user", "none", pyBool(TRUE))
    /\ Handled(handler, state, data)
    /\ UNCHANGED <<recipes, recipes_seq, meal_plan, meal_plan_seq, food_entries, food_seq,
                   water_entries, water_seq, weight_records, weight_seq,
                   shopping_cart, cart_seq, today, open_connections,
                   planVars, historyVars>>

\* a handler that answers and returns
Answered(handler) ==
    /\ Handled(handler, fsm_state, fsm_data)
    /\ NoWrite

\* /start: the state is cleared, an unknown user gets a row
cmd_start(text) ==
    /\ MessageHandler(fsm_state, text) = "cmd_start"
    /\ users' = IF users[Me] = None
                THEN [users EXCEPT ![Me] = NewUser(Me, "Ann")]
                ELSE users
    /\ ret' = IF users[Me] = None
              THEN Return("create_user", "none", pyBool(TRUE))
              ELSE Return("get_user", "none", pyDict(users[Me]))
    /\ Handled("cmd_start", StateNone, ClearedRegistration)
    /\ UNCHANGED <<recipes, recipes_seq, meal_plan, meal_plan_seq, food_entries, food_seq,
                   water_entries, water_seq, weight_records, weight_seq,
                   shopping_cart, cart_seq, today, open_connections,
                   planVars, historyVars>>

about_bot(text) ==
    /\ MessageHandler(fsm_state, text) = "about_bot"
    /\ Answered("about_bot")

start_registration(text) ==
    /\ MessageHandler(fsm_state, text) = "start_registration"
    /\ Handled("start_registration", "RegistrationStates:waiting_for_name",
               ClearedRegistration)
    /\ NoWrite

process_name(text) ==
    /\ MessageHandler(fsm_state, text) = "process_name"
    /\ IF Len(text) = 0 \/ Len(text) > 50
       THEN Answered("process_name")
       ELSE RegistrationStep("process_name", [name |-> text],
                             "RegistrationStates:waiting_for_gender",
                             [fsm_data EXCEPT !.name = text])

process_gender(text) ==
    /\ MessageHandler(fsm_state, text) = "process_gender"
    /\ IF text \notin Genders
       THEN Answered("process_gender")
       ELSE RegistrationStep("process_gender", [gender |-> text],
                             "RegistrationStates:waiting_for_age",
                             [fsm_data EXCEPT !.gender = text])

process_age(text) ==
    /\ MessageHandler(fsm_state, text) = "process_age"
    /\ IF ~int(text).ok \/ int(text).v < 12 \/ int(text).v > 120
       THEN Answered("process_age")
       ELSE RegistrationStep("process_age", [age |-> int(text).v],
                             "RegistrationStates:waiting_for_height",
                             [fsm_data EXCEPT !.age = int(text).v])

process_height(text) ==
    /\ MessageHandler(fsm_state, text) = "process_height"
    /\ IF ~float(text).ok \/ float(text).v < 100 \/ float(text).v > 250
       THEN Answered("process_height")
       ELSE RegistrationStep("process_height", [height |-> float(text).v],
                             "RegistrationStates:waiting_for_weight",
                             [fsm_data EXCEPT !.height = float(text).v])

process_weight(text) ==
    /\ MessageHandler(fsm_state, text) = "process_weight"
    /\ IF ~float(text).ok \/ float(text).v < 30 \/ float(text).v > 300
       THEN Answered("process_weight")
       ELSE RegistrationStep("process_weight", [weight |-> float(text).v],
                             "RegistrationStates:waiting_for_activity",
                             [fsm_data EXCEPT !.weight = float(text).v])

process_activity(text) ==
    /\ MessageHandler(fsm_state, text) = "process_activity"
    /\ IF text \notin ActivityLevels
       THEN Answered("process_activity")
       ELSE RegistrationStep("process_activity", [activity_level |-> text],
                             "RegistrationStates:waiting_for_goal",
                             [fsm_data EXCEPT !.activity_level = text])

\* the goal is stored, the daily targets are computed from the collected data
\* and stored with registration_complete; the state is cleared
process_goal(text) ==
    /\ MessageHandler(fsm_state, text) = "process_goal"
    /\ IF text \notin ValidGoals
       THEN Answered("process_goal")
       ELSE LET tdee == calculate_tdee(fsm_data.weight, fsm_data.height, fsm_data.age,
                                       fsm_data.activity_level, fsm_data.gender)
                goal_calories == get_goal_calories(tdee, text)
                macros == calculate_macronutrients(goal_calories, fsm_data.weight, text)
            IN RegistrationStep("process_goal",
                                [goal |-> text, goal_calories |-> goal_calories,
                                 protein |-> macros.protein, fat |-> macros.fat,
                                 carbs |-> macros.carbs, registration_complete |-> TRUE],
                                StateNone, ClearedRegistration)

\* the profile message with its edit buttons exists once show_profile got
\* through: the user has a weight, a height and goal_calories
ProfileShown ==
    /\ users[Me] # None
    /\ users[Me].weight # Null /\ users[Me].height # Null
    /\ users[Me].goal_calories # Null

\* callback edit_weight
edit_weight_handler ==
    /\ ProfileShown
    /\ Handled("edit_weight_handler", "ProfileStates:editing_weight", fsm_data)
    /\ NoWrite

\* callback edit_goal
edit_goal_handler ==
    /\ ProfileShown
    /\ Handled("edit_goal_handler", "ProfileStates:editing_goal", fsm_data)
    /\ NoWrite

\* a new weight: the targets are computed again and stored; the state is
\* cleared after the try block, also when the text was no valid weight
process_new_weight(text) ==
    /\ MessageHandler(fsm_state, text) = "process_new_weight"
    /\ IF ~float(text).ok \/ float(text).v < 30 \/ float(text).v > 300
       THEN /\ Handled("process_new_weight", StateNone, ClearedRegistration)
            /\ NoWrite
       ELSE LET user == users[Me]
                tdee == calculate_tdee(float(text).v, user.height, user.age,
                                       user.activity_level, user.gender)
                new_calories == get_goal_calories(tdee, user.goal)
                macros == calculate_macronutrients(new_calories, float(text).v, user.goal)
            IN IF user.height = Null \/ user.age = Null
               THEN Answered("process_new_weight")
               ELSE RegistrationStep("process_new_weight",
                                     [weight |-> float(text).v,
                                      goal_calories |-> new_calories,
                                      protein |-> macros.protein, fat |-> macros.fat,
                                      carbs |-> macros.carbs],
                                     StateNone, ClearedRegistration)

process_new_goal(text) ==
    /\ MessageHandler(fsm_state, text) = "process_new_goal"
    /\ IF text \notin ValidGoals
       THEN Answered("process_new_goal")
       ELSE LET user == users[Me]
                tdee == calculate_tdee(user.weight, user.height, user.age,
                                       user.activity_level, user.gender)
                new_calories == get_goal_calories(tdee, text)
                macros == calculate_macronutrients(new_calories, user.weight, text)
            IN IF user.weight = Null \/ user.height = Null \/ user.age = Null
               THEN Answered("process_new_goal")
               ELSE RegistrationStep("process_new_goal",
                                     [goal |-> text, goal_calories |-> new_calories,
                                      protein |-> macros.protein, fat |-> macros.fat,
                                      carbs |-> macros.carbs],
                                     StateNone, ClearedRegistration)

\* a message no registration matches, in this conversation
dropped_message(text) ==
    /\ MessageHandler(fsm_state, text) = Unhandled
    /\ Answered(Unhandled)

\* the user sends text: the first matching registration handles it
Message(text) ==
    \/ cmd_start(text)
    \/ about_bot(text)
    \/ start_registration(text)
    \/ process_name(text)
    \/ process_gender(text)
    \/ process_age(text)
    \/ process_height(text)
    \/ process_weight(text)
    \/ process_activity(text)
    \/ process_goal(text)
    \/ process_new_weight(text)
    \/ process_new_goal(text)
    \/ dropped_message(text)

InitRegistration ==
    /\ users = [u \in Users |-> None]
    /\ recipes = {}
    /\ recipes_seq = 0
    /\ meal_plan = {}
    /\ meal_plan_seq = 0
    /\ food_entries = {}
    /\ food_seq = 0
    /\ water_entries = {}
    /\ water_seq = 0
    /\ weight_records = {}
    /\ weight_seq = 0
    /\ shopping_cart = {}
    /\ cart_seq = 0
    /\ today = 1
    /\ open_connections = 0
    /\ ret = NoCall
    /\ generated_plan = [user_id |-> 0, plan |-> <<>>]
    /\ plan_slots = <<>>
    /\ plan_requests = NoRequests
    /\ saved_args = << >>
    /\ last_weight = [k \in Users \X Dates |-> 0]
    /\ shown_recipes = {}
    /\ shown_replacements = {}
    /\ fsm_state = StateNone
    /\ fsm_data = ClearedRegistration
    /\ last_handler = ""
    /\ diary_date = NoDate

NextRegistration ==
    \/ \E text \in RegistrationTexts : cmd_start(text)
    \/ \E text \in RegistrationTexts : about_bot(text)
    \/ \E text \in RegistrationTexts : start_registration(text)
    \/ \E text \in RegistrationTexts : process_name(text)
    \/ \E text \in RegistrationTexts : process_gender(text)
    \/ \E text \in RegistrationTexts : process_age(text)
    \/ \E text \in RegistrationTexts : process_height(text)
    \/ \E text \in RegistrationTexts : process_weight(text)
    \/ \E text \in RegistrationTexts : process_activity(text)
    \/ \E text \in RegistrationTexts : process_goal(text)
    \/ \E text \in RegistrationTexts : process_new_weight(text)
    \/ \E text \in RegistrationTexts : process_new_goal(text)
    \/ \E text \in RegistrationTexts : dropped_message(text)
    \/ edit_weight_handler
    \/ edit_goal_handler

SpecRegistration == InitRegistration /\ [][NextRegistration]_vars

\* ------------------------------------------------------------------ callback dispatch

\* the callback registrations of register_handlers, in the order the router
\* gets them; filter eq is F.data == arg, startswith is F.data.startswith(arg),
\* any is a registration without a filter
CallbackRegistrations ==
    << [handler |-> "back_to_favorites_handler", filter |-> "eq", arg |-> "back_to_favorites"],
       [handler |-> "save_recipe_handler", filter |-> "eq", arg |-> "recipe:save"],
       [handler |-> "cancel_recipe_creation", filter |-> "eq", arg |-> "recipe:cancel"],
       [handler |-> "handle_recipes_callback", filter |-> "startswith", arg |-> "recipe:"],
       [handler |-> "handle_search_page", filter |-> "startswith", arg |-> "search_page:"],
       [handler |-> "view_recipe_details", filter |-> "startswith", arg |-> "view_recipe:"],
       [handler |-> "toggle_favorite_handler", filter |-> "startswith", arg |-> "toggle_fav:"],
       [handler |-> "add_to_menu_handler", filter |-> "startswith", arg |-> "add_to_menu:"],
       [handler |-> "show_favorites_page", filter |-> "startswith", arg |-> "fav_page:"],
       [handler |-> "view_favorite_recipe", filter |-> "startswith", arg |-> "view_fav_recipe:"],
       [handler |-> "back_to_favorites_handler", filter |-> "eq", arg |-> "back_to_favorites"],
       [handler |-> "handle_consultation_callback", filter |-> "startswith", arg |-> "consultation:"],
       [handler |-> "handle_articles_callback", filter |-> "startswith", arg |-> "articles:"],
       [handler |-> "handle_weight_reports_callback", filter |-> "startswith", arg |-> "weight:"],
       [handler |-> "handle_shopping_cart_callback", filter |-> "startswith", arg |-> "cart:"],
       [handler |-> "back_to_search_handler", filter |-> "eq", arg |-> "back_to_search"],
       [handler |-> "edit_weight_handler", filter |-> "eq", arg |-> "edit_weight"],
       [handler |-> "edit_goal_handler", filter |-> "eq", arg |-> "edit_goal"],
       [handler |-> "edit_activity_handler", filter |-> "eq", arg |-> "edit_activity"],
       [handler |-> "recalculate_handler", filter |-> "eq", arg |-> "recalculate"],
       [handler |-> "profile_back_handler", filter |-> "eq", arg |-> "profile_back"],
       [handler |-> "add_water_amount", filter |-> "startswith", arg |-> "water_add:"],
       [handler |-> "custom_water_amount", filter |-> "eq", arg |-> "water_custom"],
       [handler |-> "set_water_goal_handler", filter |-> "eq", arg |-> "water_goal"],
       [handler |-> "show_water_statistics", filter |-> "eq", arg |-> "water_stats"],
       [handler |-> "return_to_main_menu", filter |-> "eq", arg |-> "main_menu"],
       [handler |-> "set_water_goal", filter |-> "startswith", arg |-> "water_goal_set:"],
       [handler |-> "water_tracker", filter |-> "eq", arg |-> "water_tracker"],
       [handler |-> "about_bot_callback", filter |-> "eq", arg |-> "about_bot"],
       [handler |-> "back_to_start", filter |-> "eq", arg |-> "back_to_start"],
       [handler |-> "handle_meal_plan_menu", filter |-> "startswith", arg |-> "meal_plan:"],
       [handler |-> "handle_diary_callback", filter |-> "any", arg |-> ""],
       [handler |-> "handle_food_selection", filter |-> "startswith", arg |-> "select_food:"],
       [handler |-> "confirm_food_entry", filter |-> "eq", arg |-> "confirm_food"],
       [handler |-> "cancel_food_entry", filter |-> "eq", arg |-> "cancel_food"],
       [handler |-> "confirm_clear_diary", filter |-> "eq", arg |-> "confirm_clear"],
       [handler |-> "cancel_clear_diary", filter |-> "eq", arg |-> "cancel_clear"],
       [handler |-> "handle_recent_food_selection", filter |-> "startswith", arg |-> "recent_food:"],
       [handler |-> "return_to_meal_selection", filter |-> "eq", arg |-> "return_to_meal_selection"],
       [handler |-> "return_to_diary_handler", filter |-> "eq", arg |-> "return_to_diary"],
       [handler |-> "handle_plan_date_selection", filter |-> "startswith", arg |-> "plan_date:"],
       [handler |-> "start_add_to_plan", filter |-> "eq", arg |-> "plan:add"],
       [handler |-> "handle_meal_type_selection", filter |-> "meal_type_outside_diary", arg |-> "meal_type:"],
       [handler |-> "handle_recipe_selection", filter |-> "startswith", arg |-> "plan_recipe:"],
       [handler |-> "view_meal_type_plan", filter |-> "plan_view", arg |-> "plan:"],
       [handler |-> "delete_plan_entry", filter |-> "startswith", arg |-> "delete_plan_entry:"],
       [handler |-> "clear_plan", filter |-> "eq", arg |-> "plan:clear"],
       [handler |-> "confirm_clear_plan", filter |-> "startswith", arg |-> "confirm_clear_plan:"],
       [handler |-> "cancel_clear_plan", filter |-> "eq", arg |-> "cancel_clear_plan"],
       [handler |-> "transfer_plan_to_diary", filter |-> "eq", arg |-> "plan:to_diary"],
       [handler |-> "generate_meal_plan", filter |-> "eq", arg |-> "plan:generate"],
       [handler |-> "return_to_plan_view", filter |-> "eq", arg |-> "return_to_plan_view"],
       [handler |-> "handle_replace_dish", filter |-> "startswith", arg |-> "replace_dish:"],
       [handler |-> "confirm_replace_dish", filter |-> "startswith", arg |-> "confirm_replace:"],
       [handler |-> "save_whole_plan_to_diary", filter |-> "startswith", arg |-> "save_plan_to_diary:"],
       [handler |-> "handle_save_plan_to_diary", filter |-> "startswith", arg |-> "save_plan_to_diary:"],
       [handler |-> "show_plan_for_date", filter |-> "startswith", arg |-> "show_plan:"],
       [handler |-> "transfer_plan_to_diary", filter |-> "eq", arg |-> "plan:to_diary"],
       [handler |-> "toggle_recipe_favorite_status", filter |-> "startswith", arg |-> "toggle_favorite:"],
       [handler |-> "delete_recipe_handler", filter |-> "startswith", arg |-> "delete_recipe:"],
       [handler |-> "return_to_recipes_menu", filter |-> "eq", arg |-> "return_to_recipes"],
       [handler |-> "recipe_to_diary", filter |-> "startswith", arg |-> "recipe_to_diary:"],
       [handler |-> "handle_statistics_callback", filter |-> "startswith", arg |-> "stats:"],
       [handler |-> "add_product_handler", filter |-> "startswith", arg |-> "add_product:"],
       [handler |-> "enter_weight_handler", filter |-> "startswith", arg |-> "enter_weight:"],
       [handler |-> "back_to_list_handler", filter |-> "eq", arg |-> "back_to_list"] >>

\* str.startswith
StartsWith(s, prefix) ==
    Len(s) >= Len(prefix) /\ SubSeq(s, 1, Len(prefix)) = prefix

\* the part of the callback data after "<prefix>"
After(data, prefix) == SubSeq(data, Len(prefix) + 1, Len(data))

\* the states StateFilter(DiaryStates) passes
DiaryStateNames ==
    {"selecting_date", "selecting_meal_type", "entering_food", "selecting_food",
     "entering_amount", "confirming_entry"}

CallbackMatches(reg, state, data) ==
    \/ reg.filter = "any"
    \/ reg.filter = "eq" /\ data = reg.arg
    \/ reg.filter = "startswith" /\ StartsWith(data, reg.arg)
    \/ /\ reg.filter = "meal_type_outside_diary"
       /\ StartsWith(data, reg.arg)
       /\ state \notin DiaryStateNames
    \/ /\ reg.filter = "plan_view"
       /\ StartsWith(data, reg.arg)
       /\ Contains(data, ":")
       /\ data \notin {"plan:add", "plan:generate", "plan:to_diary", "plan:clear", "plan:back"}

\* the handler of the first registration among regs whose filter passes
FirstMatch(regs, state, data) ==
    LET hits == { i \in regs : CallbackMatches(CallbackRegistrations[i], state, data) }
    IN IF hits = {} THEN Unhandled
       ELSE CallbackRegistrations[CHOOSE i \in hits : \A j \in hits : i <= j].handler

\* the first registration whose filter passes handles the callback
CallbackHandler(state, data) == FirstMatch(DOMAIN CallbackRegistrations, state, data)

\* handle_diary_callback: the buttons of the diary go to their handlers, any
\* other callback is only answered
handle_diary_callback(data) ==
    IF StartsWith(data, "date:")
    THEN handle_date_selection(After(data, "date:"))
    ELSE IF data = "add_food" THEN start_food_entry
    ELSE IF data = "clear_diary" THEN clear_diary
    ELSE IF StartsWith(data, "meal_type:")
    THEN handle_meal_type_selection(After(data, "meal_type:"))
    ELSE IF data = "return_to_diary" THEN return_to_diary
    ELSE /\ Handled("handle_diary_callback", fsm_state, fsm_data)
         /\ NoWrite

\* the callback data of the buttons the user presses
CallbackData ==
    {"date:prev", "date:next", "date:today", "add_food", "clear_diary",
     "meal_type:breakfast", "meal_type:lunch", "return_to_diary", "edit_weight",
     "select_food:0", "confirm_food", "confirm_clear", "cancel_clear",
     "plan_date:next", "plan:add", "plan_recipe:1", "delete_plan_entry:1",
     "replace_dish:1", "confirm_replace:1", "delete_recipe:1", "stats:week"}

\* the user presses a button: the first matching registration handles it
callback_query(data) ==
    \/ /\ CallbackHandler(fsm_state, data) = "handle_diary_callback"
       /\ handle_diary_callback(data)
    \/ /\ CallbackHandler(fsm_state, data) = "edit_weight_handler"
       /\ edit_weight_handler

\* the user sends text: the first matching registration handles it
diary_message(text) ==
    \/ /\ MessageHandler(fsm_state, text) = "show_diary"
       /\ show_diary
    \/ /\ MessageHandler(fsm_state, text) = "process_food_entry"
       /\ process_food_entry(text)

NextCallbacks ==
    \/ \E text \in Queries \cup {"Diary"} : diary_message(text)
    \/ \E data \in CallbackData : callback_query(data)

SpecCallbacks == InitDiary /\ [][NextCallbacks]_vars

\* ------------------------------------------------------------------ dish replacement

\* the plan rows a call may add on top of the generated plans
ReplaceRowLimit == MaxGenerations * Len(MealTypes) + MaxPlanRows

\* target_calories * 0.8 <= r['calories'] <= target_calories * 1.2
SimilarCalories(r, current_calories) ==
    /\ 8 * current_calories <= 10 * r.calories
    /\ 10 * r.calories <= 12 * current_calories

RECURSIVE NearestRecipes(_, _, _)
\* sorted(available_recipes, key=lambda r: abs(r['calories'] - target_calories))[:n]
NearestRecipes(recs, current_calories, n) ==
    IF n = 0 \/ recs = << >> THEN << >>
    ELSE LET Key(k) == Abs(recs[k].calories - current_calories)
             i == CHOOSE i \in 1..Len(recs) :
                    \A j \in 1..Len(recs) : Key(i) < Key(j) \/ (Key(i) = Key(j) /\ i <= j)
         IN <<recs[i]>> \o NearestRecipes(SubSeq(recs, 1, i - 1) \o SubSeq(recs, i + 1, Len(recs)),
                                          current_calories, n - 1)

\* similar_recipes[:5] of handle_replace_dish
replacement_choices(user_id, recipe_id) ==
    LET current_calories == recipe_details(recipe_id).v.calories
        available_recipes == SelectSeq(saved_recipes(user_id, AnyFavorite),
                                       LAMBDA r : r.id # recipe_id)
        similar_recipes == SelectSeq(available_recipes,
                                     LAMBDA r : SimilarCalories(r, current_calories))
        offered == IF similar_recipes = << >>
                   THEN NearestRecipes(available_recipes, current_calories, 3)
                   ELSE similar_recipes
    IN SubSeq(offered, 1, IF Len(offered) < 5 THEN Len(offered) ELSE 5)

\* callback replace_dish:<recipe id>:<meal type>:<date>, a button under the
\* generated plan: offers a button confirm_replace:<old>:<new>:<meal type>:<date>
\* for each choice; nothing is offered when the recipe is gone or is the only one
handle_replace_dish(recipe_id, meal_type, date) ==
    /\ generated_plan.user_id = Me
    /\ date = today
    /\ \E k \in DOMAIN generated_plan.plan :
          /\ generated_plan.plan[k].recipe.id = recipe_id
          /\ generated_plan.plan[k].meal_type = meal_type
    /\ shown_replacements' =
          IF recipe_details(recipe_id) = pyNone
          THEN shown_replacements
          ELSE shown_replacements \cup
               { [old |-> recipe_id, new |-> r.id, meal_type |-> meal_type, date |-> date] :
                 r \in Range(replacement_choices(Me, recipe_id)) }
    /\ Handled("handle_replace_dish", fsm_state, fsm_data)
    /\ UNCHANGED <<tables, today, open_connections, ret, planVars, saved_args,
                   last_weight, shown_recipes>>

\* get_meal_plan_for_type: the user's plan rows of the slot, joined with recipes
meal_plan_for_type(user_id, meal_type, date) ==
    { p \in meal_plan :
        /\ p.user_id = user_id /\ p.date = date /\ p.meal_type = meal_type
        /\ \E r \in recipes : r.id = p.recipe_id }

\* callback confirm_replace:... of a button shown before: the first plan row of
\* the slot with the old recipe is removed, then the new recipe is added; the
\* results of remove_from_meal_plan and add_to_meal_plan are not looked at, and
\* new_recipe['name'] raises when the new recipe is gone
confirm_replace_dish(button, fail_remove, fail_add) ==
    LET matching == { p \in meal_plan_for_type(Me, button.meal_type, button.date) :
                        p.recipe_id = button.old }
    IN /\ button \in shown_replacements
       /\ meal_plan_seq < ReplaceRowLimit
       /\ IF matching = {}
          THEN /\ Handled("confirm_replace_dish", fsm_state, fsm_data)
               /\ ret' = Return("get_meal_plan_for_type", "none", pyList(<< >>))
               /\ UNCHANGED <<meal_plan, meal_plan_seq>>
          ELSE \E plan_entry_to_replace \in matching :
               LET removed == IF Committed(fail_remove)
                              THEN meal_plan \ {plan_entry_to_replace}
                              ELSE meal_plan
                   added == IF Committed(fail_add)
                            THEN removed \cup { MealPlanRow(meal_plan_seq + 1, Me, button.new,
                                                            button.meal_type, button.date) }
                            ELSE removed
               IN /\ meal_plan' = added
                  /\ meal_plan_seq' = IF Committed(fail_add) THEN meal_plan_seq + 1
                                      ELSE meal_plan_seq
                  /\ IF recipe_details(button.new) = pyNone
                     THEN /\ Handled("confirm_replace_dish", fsm_state, fsm_data)
                          /\ ret' = Return("get_recipe_details", "none", pyNone)
                     ELSE /\ Handled("confirm_replace_dish", fsm_state,
                                     [fsm_data EXCEPT !.selected_date = button.date])
                          /\ ret' = Return("get_daily_meal_plan", "none",
                                           pyList(JoinedPlan(added, Me, button.date)))
       /\ UNCHANGED <<users, recipes, recipes_seq, food_entries, food_seq,
                      water_entries, water_seq, weight_records, weight_seq,
                      shopping_cart, cart_seq, today, open_connections,
                      planVars, historyVars>>

\* the buttons confirm_replace can carry
ReplaceButtons ==
    [old : RecipeIds, new : RecipeIds, meal_type : Range(MealTypes), date : Dates]

NextReplace ==
    \/ \E c \in RecipeInputs : plan_recipe_saved(c)
    \/ \E id \in RecipeIds : plan_recipe_deleted(id)
    \/ generate_daily_meal_plan(Me)
    \/ \E id \in RecipeIds, m \in Range(MealTypes) : handle_replace_dish(id, m, today)
    \/ \E b \in ReplaceButtons, fail_remove \in HandlerFails, fail_add \in HandlerFails :
          confirm_replace_dish(b, fail_remove, fail_add)

SpecReplace == InitDiary /\ [][NextReplace]_vars

\* ------------------------------------------------------------------ overlapping plan generation

\* generate_meal_plan runs as a coroutine: each action below is the code from
\* one await to the next, and the calls of Requests take their steps in any order

\* target_calories * (1 - p/100) <= r['calories'] <= target_calories * (1 + p/100)
\* for target_calories = goal_calories * percentage
WithinBand(r, goal_calories, meal_type, p) ==
    /\ (100 - p) * goal_calories * meal_distribution[meal_type] <= 10000 * r.calories
    /\ 10000 * r.calories <= (100 + p) * goal_calories * meal_distribution[meal_type]

\* the candidates of one meal type: within 15 %, else within 25 %, else the nearest
plan_candidates(recs, user, meal_type) ==
    LET in15 == SelectSeq(recs, LAMBDA r : WithinBand(r, user.goal_calories, meal_type, 15))
        in25 == SelectSeq(recs, LAMBDA r : WithinBand(r, user.goal_calories, meal_type, 25))
    IN IF in15 # << >> THEN in15
       ELSE IF in25 # << >> THEN in25
       ELSE NearestFirst(recs, SlotTarget(user, meal_type))

\* a step of call q: its position and locals change, nobody else's
RequestStep(q, pc, slot, recs, selected_date) ==
    /\ plan_requests' = [plan_requests EXCEPT ![q] =
                            [pc |-> pc, slot |-> slot, recipes |-> recs,
                             selected_date |-> selected_date]]
    /\ UNCHANGED <<generated_plan, plan_slots>>

\* callback plan:generate arrives: get_user, then await state.get_data(); an
\* unregistered user is answered and the call ends
generate_meal_plan_start(q) ==
    /\ plan_requests[q].pc = "new"
    /\ IF get_user(Me) = None
       THEN RequestStep(q, "finished", 0, << >>, NoDate)
       ELSE RequestStep(q, "get_data", 0, << >>, NoDate)
    /\ Handled("generate_meal_plan", fsm_state, fsm_data)
    /\ UNCHANGED <<tables, today, open_connections, ret, historyVars>>

\* from state.get_data() to the first await message.answer of the loop:
\* clear_meal_plan for the selected date, then get_saved_recipes
generate_meal_plan_clear(q) ==
    LET recs == saved_recipes(Me, AnyFavorite)
    IN /\ plan_requests[q].pc = "get_data"
       /\ meal_plan' = clear_meal_plan(meal_plan, Me, SelectedDateOrToday)
       /\ IF recs = << >>
          THEN RequestStep(q, "finished", 0, recs, SelectedDateOrToday)
          ELSE RequestStep(q, "slot", 1, recs, SelectedDateOrToday)
       /\ ret' = Return("get_saved_recipes", "none", pyList(recs))
       /\ Handled("generate_meal_plan", fsm_state, fsm_data)
       /\ UNCHANGED <<users, recipes, recipes_seq, meal_plan_seq, food_entries, food_seq,
                      water_entries, water_seq, weight_records, weight_seq,
                      shopping_cart, cart_seq, today, open_connections, historyVars>>

\* one loop iteration after its await message.answer: random.choice among the
\* candidates and add_to_meal_plan, up to the next await
generate_meal_plan_slot(q) ==
    LET r == plan_requests[q]
        meal_type == MealTypes[r.slot]
    IN /\ r.pc = "slot"
       /\ \E selected \in Range(plan_candidates(r.recipes, get_user(Me), meal_type)) :
            meal_plan' = meal_plan \cup { MealPlanRow(meal_plan_seq + 1, Me, selected.id,
                                                      meal_type, r.selected_date) }
       /\ meal_plan_seq' = meal_plan_seq + 1
       /\ IF r.slot < Len(MealTypes)
          THEN RequestStep(q, "slot", r.slot + 1, r.recipes, r.selected_date)
          ELSE RequestStep(q, "generated", r.slot, r.recipes, r.selected_date)
       /\ ret' = Return("add_to_meal_plan", "none", pyInt(meal_plan_seq + 1))
       /\ Handled("generate_meal_plan", fsm_state, fsm_data)
       /\ UNCHANGED <<users, recipes, recipes_seq, food_entries, food_seq,
                      water_entries, water_seq, weight_records, weight_seq,
                      shopping_cart, cart_seq, today, open_connections, historyVars>>

\* after the answer that the plan is generated: show_daily_plan, and the call ends
generate_meal_plan_show(q) ==
    LET r == plan_requests[q]
    IN /\ r.pc = "generated"
       /\ show_daily_plan("generate_meal_plan", fsm_state, fsm_data, r.selected_date)
       /\ RequestStep(q, "finished", r.slot, r.recipes, r.selected_date)
       /\ UNCHANGED <<tables, today, open_connections, historyVars>>

NextGenerate ==
    \/ \E c \in RecipeInputs : plan_recipe_saved(c)
    \/ \E q \in Requests : generate_meal_plan_start(q)
    \/ \E q \in Requests : generate_meal_plan_clear(q)
    \/ \E q \in Requests : generate_meal_plan_slot(q)
    \/ \E q \in Requests : generate_meal_plan_show(q)

SpecGenerate == InitDiary /\ [][NextGenerate]_vars

\* ------------------------------------------------------------------ meal-plan properties

\* the user whose plan the last run of generate_daily_meal_plan generated
PlanUser == users[generated_plan.user_id]

\* the shares the specification gives each slot, in percent
SpecShares ==
    [breakfast |-> [calories |-> 25, protein |-> 25, fat |-> 30, carbs |-> 30],
     lunch     |-> [calories |-> 35, protein |-> 40, fat |-> 35, carbs |-> 35],
     dinner    |-> [calories |-> 30, protein |-> 30, fat |-> 25, carbs |-> 25],
     snack     |-> [calories |-> 10, protein |-> 5,  fat |-> 10, carbs |-> 10]]

\* the slot targets of the specification, in hundredths
SpecTarget(user, meal_type) ==
    [calories |-> user.goal_calories * SpecShares[meal_type].calories,
     protein  |-> user.protein * SpecShares[meal_type].protein,
     fat      |-> user.fat * SpecShares[meal_type].fat,
     carbs    |-> user.carbs * SpecShares[meal_type].carbs]

\* C1 (as amended): a run over a non-empty recipe list visits breakfast, lunch,
\* dinner and snack in this order and gives each slot a calorie target of 25, 35,
\* 30 and 10 percent of the user's goal_calories; the calorie target is the only
\* target a slot gets, no protein, fat or carbs target is computed.
C1_CalorieShares ==
    plan_slots # <<>> =>
        /\ Len(plan_slots) = 4
        /\ \A i \in 1..4 :
              /\ plan_slots[i].meal_type = MealTypes[i]
              /\ DOMAIN plan_slots[i].target = {"calories"}
              /\ plan_slots[i].target.calories =
                     SpecTarget(PlanUser, MealTypes[i]).calories

\* C1 witness: a run for a 2000 kcal user has given lunch the target 700 kcal
C1_Witness ==
    /\ Len(plan_slots) = 4
    /\ PlanUser.goal_calories = 2000
    /\ plan_slots[2].meal_type = "lunch"
    /\ plan_slots[2].target.calories = 70000

\* C1 (as stated): every slot has a calorie, protein, fat and carbs target equal
\* to its share of the daily target.
C1_AllShares ==
    \A i \in 1..Len(plan_slots) :
        /\ DOMAIN plan_slots[i].target = {"calories", "protein", "fat", "carbs"}
        /\ plan_slots[i].target = SpecTarget(PlanUser, plan_slots[i].meal_type)

\* the recipes of a pool whose calories lie within pct percent of the target
WithinPercent(pool, target100, pct) ==
    { r \in Range(pool) :
        /\ (100 - pct) * target100 <= 10000 * r.calories
        /\ 10000 * r.calories <= (100 + pct) * target100 }

\* the candidate list is one recipe, nearest to the target by calories, and the
\* first such recipe of the pool
IsNearest(cands, pool, target100) ==
    /\ Len(cands) = 1
    /\ \E k \in 1..Len(pool) :
          /\ pool[k] = cands[1]
          /\ \A j \in 1..Len(pool) :
                Abs(100 * pool[k].calories - target100)
                    <= Abs(100 * pool[j].calories - target100)
          /\ \A j \in 1..(k - 1) :
                Abs(100 * pool[j].calories - target100)
                    > Abs(100 * pool[k].calories - target100)

SlotTarget100(i) == SpecTarget(PlanUser, plan_slots[i].meal_type).calories

\* C2 (as amended): the candidate set of a slot is the set of recipes within
\* +-20% of the slot's target calories; if that set is empty it is the one recipe
\* nearest to the target by calories. There is no +-40% step.
C2_BandThenNearest ==
    \A i \in 1..Len(plan_slots) :
        LET s == plan_slots[i]
            in20 == WithinPercent(s.recipes, SlotTarget100(i), 20)
        IN IF in20 # {}
           THEN /\ Range(s.suitable_recipes) = in20
                /\ Len(s.suitable_recipes) = Cardinality(in20)
           ELSE IsNearest(s.suitable_recipes, s.recipes, SlotTarget100(i))

\* C2 witness: a slot with no recipe within +-20% and two within +-40%, whose
\* candidate set is the nearest recipe alone
C2_Witness ==
    \E i \in 1..Len(plan_slots) :
        /\ WithinPercent(plan_slots[i].recipes, SlotTarget100(i), 20) = {}
        /\ Cardinality(WithinPercent(plan_slots[i].recipes, SlotTarget100(i), 40)) >= 2
        /\ Len(plan_slots[i].suitable_recipes) = 1

\* C2 (as stated): +-20%, then +-40%, then the nearest recipe.
C2_ThreeSteps ==
    \A i \in 1..Len(plan_slots) :
        LET s == plan_slots[i]
            in20 == WithinPercent(s.recipes, SlotTarget100(i), 20)
            in40 == WithinPercent(s.recipes, SlotTarget100(i), 40)
        IN IF in20 # {} THEN Range(s.suitable_recipes) = in20
           ELSE IF in40 # {} THEN Range(s.suitable_recipes) = in40
           ELSE IsNearest(s.suitable_recipes, s.recipes, SlotTarget100(i))

RECURSIVE GCD(_, _)
GCD(a, b) == IF b = 0 THEN a ELSE GCD(b, a % b)

LCM(a, b) == (a \div GCD(a, b)) * b

\* the deviation score of the specification times 10 * L, L the least common
\* multiple of the four targets:
\* calorie_diff + 0.3 * (protein_diff + fat_diff + carbs_diff)
Score(r, t) ==
    LET L == LCM(LCM(t.calories, t.protein), LCM(t.fat, t.carbs))
    IN 10 * (L \div t.calories) * Abs(100 * r.calories - t.calories)
       + 3 * ( (L \div t.protein) * Abs(100 * r.protein - t.protein)
             + (L \div t.fat) * Abs(100 * r.fat - t.fat)
             + (L \div t.carbs) * Abs(100 * r.carbs - t.carbs) )

\* the 5 candidates ranked first by closeness of calories to the target
Top5(cands, t) ==
    { r \in Range(cands) :
        Cardinality({ q \in Range(cands) :
            Abs(100 * q.calories - t.calories) < Abs(100 * r.calories - t.calories) }) < 5 }

\* C3 (as amended): the recipe put into a slot is one of the slot's candidates
\* (random.choice draws it); every slot with candidates gets one.
C3_ChosenAmongCandidates ==
    \A i \in 1..Len(plan_slots) :
        LET s == plan_slots[i]
        IN IF s.suitable_recipes = <<>>
           THEN s.selected_recipe = None
           ELSE s.selected_recipe \in Range(s.suitable_recipes)

\* C3 witness: a slot whose chosen recipe has a strictly larger deviation score
\* than another candidate of the slot
C3_Witness ==
    \E i \in 1..Len(plan_slots) :
        LET s == plan_slots[i]
            t == SpecTarget(PlanUser, s.meal_type)
        IN /\ s.selected_recipe # None
           /\ \E r \in Top5(s.suitable_recipes, t) :
                 Score(r, t) < Score(s.selected_recipe, t)

\* C3 (as stated): no candidate among the top 5 has a strictly smaller score than
\* the chosen recipe.
C3_MinimisesScore ==
    \A i \in 1..Len(plan_slots) :
        LET s == plan_slots[i]
            t == SpecTarget(PlanUser, s.meal_type)
        IN s.selected_recipe # None =>
              /\ s.selected_recipe \in Top5(s.suitable_recipes, t)
              /\ \A r \in Top5(s.suitable_recipes, t) :
                    Score(s.selected_recipe, t) <= Score(r, t)

\* C4 (as amended): the chosen recipe is not removed from the pool: every slot is
\* filled from the user's whole recipe list, every slot gets a recipe, and the
\* plan rows of the day are exactly the four chosen recipes, one per slot.
C4_PoolUnchanged ==
    plan_slots # <<>> =>
        /\ \A i \in 1..Len(plan_slots) :
              /\ plan_slots[i].recipes = saved_recipes(generated_plan.user_id, AnyFavorite)
              /\ plan_slots[i].selected_recipe # None
        /\ Len(generated_plan.plan) = 4
        /\ \A i \in 1..4 :
              Cardinality({ p \in meal_plan :
                  /\ p.user_id = generated_plan.user_id
                  /\ p.date = today
                  /\ p.meal_type = MealTypes[i]
                  /\ p.recipe_id = generated_plan.plan[i].recipe.id }) = 1
        /\ Cardinality({ p \in meal_plan :
                  p.user_id = generated_plan.user_id /\ p.date = today }) = 4

\* C4 witness: a generated plan with the same recipe in two slots
C4_Witness ==
    \E i, j \in 1..Len(generated_plan.plan) :
        /\ i # j
        /\ generated_plan.plan[i].recipe.id = generated_plan.plan[j].recipe.id

\* C4 (as stated): no recipe is assigned to two slots of the generated plan.
C4_NoRepeat ==
    \A i, j \in 1..Len(generated_plan.plan) :
        i # j => generated_plan.plan[i].recipe.id # generated_plan.plan[j].recipe.id

\* ------------------------------------------------------------------ food diary totals

RECURSIVE SeqSum(_, _)
SeqSum(rows, col) ==
    IF rows = <<>> THEN 0 ELSE Head(rows)[col] + SeqSum(Tail(rows), col)

\* C5: after any add_food_entry and clear_daily_entries calls, for every user
\* and date the totals get_daily_totals reports for calories, protein, fat and
\* carbs are the sums over the list get_daily_entries returns (0 for an empty
\* list), and that list holds the stored entries of that user and that date
\* and no other.
C5_TotalsAreSumOfEntries ==
    \A u \in Users, d \in Dates :
        LET entries == daily_entries(u, d)
            totals == daily_totals(u, d)
        IN /\ totals.total_calories = SeqSum(entries, "calories")
           /\ totals.total_protein = SeqSum(entries, "protein")
           /\ totals.total_fat = SeqSum(entries, "fat")
           /\ totals.total_carbs = SeqSum(entries, "carbs")
           /\ entries = <<>> => totals = ZeroTotals
           /\ \A i \in DOMAIN entries : entries[i].user_id = u /\ entries[i].date = d
           /\ \A e \in food_entries :
                 (e.user_id = u /\ e.date = d) => \E i \in DOMAIN entries : entries[i] = e

\* two entries on one day of user 1 after that day was cleared once, and an
\* entry of the same user on another day
C5_Witness ==
    /\ Len(daily_entries(1, 1)) = 2
    /\ \A i \in DOMAIN daily_entries(1, 1) : daily_entries(1, 1)[i].id > 1
    /\ \E e \in food_entries : e.user_id = 1 /\ e.date = 2
    /\ daily_totals(1, 1).total_calories >= 500

\* ------------------------------------------------------------------ recipe round trip

\* C6: every id save_recipe has returned and delete_recipe has not been called
\* on reads back, through get_recipe_details, as a row with the user, name,
\* ingredients, instructions, calories, protein, fat and carbs of that
\* save_recipe call, whatever was saved, marked favourite or deleted since.
C6_SavedRecipeReadsBack ==
    \A id \in DOMAIN saved_args :
        LET details == recipe_details(id)
        IN /\ details.kind = "dict"
           /\ details.v.id = id
           /\ \A f \in DOMAIN saved_args[id] : details.v[f] = saved_args[id][f]

\* recipe 1 read back after recipe 2 was saved and deleted again
C6_Witness ==
    /\ DOMAIN saved_args = {1}
    /\ recipes_seq = 2
    /\ ~ \E r \in recipes : r.id = 2
    /\ ret.fn = "get_recipe_details"
    /\ ret.value = recipe_details(1)
    /\ ret.value.kind = "dict"

\* ------------------------------------------------------------------ failures in the data layer

\* the value each function returns from its except branch
FailureValue(fn) ==
    CASE fn = "get_daily_entries" -> pyList(<<>>)
      [] fn = "get_daily_totals" -> pyDict(ZeroTotals)
      [] fn = "get_daily_water" -> pyInt(0)
      [] fn = "add_food_entry" -> pyNone
      [] OTHER -> pyBool(FALSE)

\* C7: a call in which a database operation raises does not let the exception
\* out, returns the default (reads) or the failure value (writes) of its
\* function, and leaves every table as it was before the call.
C7_FailuresAreContained ==
    [][ ret'.fail # "none" =>
            /\ ~ret'.raised
            /\ ret'.value = FailureValue(ret'.fn)
            /\ UNCHANGED tables ]_vars

\* ------------------------------------------------------------------ connections

\* C8: between calls no connection is open: every call has closed the
\* connection it opened, whether it returned normally or through its except
\* branch.
C8_ConnectionsClosed == open_connections = 0

\* update_user has just failed in execute, after opening its connection
C8_Witness ==
    /\ ret.fn = "update_user"
    /\ ret.fail = "execute"
    /\ ret.value = pyBool(FALSE)
    /\ open_connections = 0
    /\ shopping_cart # {}

\* ------------------------------------------------------------------ weight records

WeightRows(user_id, date) ==
    { r \in weight_records : r.user_id = user_id /\ r.date = date }

\* C9: there is never more than one weight record for a user and a date, and
\* once add_weight_record has stored a weight for the user on that date there
\* is exactly one, holding the weight of the last call that stored one.
C9_OneRecordPerDay ==
    \A u \in Users, d \in Dates :
        /\ Cardinality(WeightRows(u, d)) <= 1
        /\ last_weight[<<u, d>>] # 0 =>
              /\ Cardinality(WeightRows(u, d)) = 1
              /\ \A r \in WeightRows(u, d) : r.weight = last_weight[<<u, d>>]

\* user 1 recorded 70 and then 71 on day 1: the second record replaced the first
C9_Witness ==
    /\ today = 1
    /\ weight_seq = 2
    /\ last_weight[<<1, 1>>] = 71
    /\ \E r \in WeightRows(1, 1) : r.id = 2 /\ r.weight = 71
    /\ ret.fn = "add_weight_record"

\* ------------------------------------------------------------------ diary flow

\* C10: in the diary conversation a row is inserted into food_entries only by
\* the confirmation step (confirm_food_entry); no other handler of the flow
\* inserts one.
C10_WrittenOnlyOnConfirmation ==
    [][ food_seq' # food_seq => last_handler' = "confirm_food_entry" ]_vars

\* ------------------------------------------------------------------ recipe-creation flow

\* C11: every state of the recipe-creation flow, up to the confirmation that
\* saves the recipe, has a registered message handler that takes the user's
\* message, so a conversation with valid answers can go on to save_recipe.
C11_EveryFlowStateHandled ==
    \A i \in DOMAIN RecipeFlowStates :
        fsm_state = RecipeFlowStates[i] =>
            \E t \in RecipeTexts : MessageHandler(fsm_state, t) # Unhandled

\* ------------------------------------------------------------------ shopping cart

\* C12: cart:refresh on a non-empty cart regenerates the cart for the period it
\* was generated for: every item of the regenerated cart carries the period of
\* the cart that was refreshed.
C12_RefreshKeepsPeriod ==
    [][cart_refresh =>
          \A old \in CartOf(Me) : \A new \in { r \in shopping_cart' : r.user_id = Me } :
              new.period = old.period]_vars

\* the recipes of the user's meal plan on the dates the cart covers
PlanRecipes(user_id, days) ==
    { r \in recipes : \E p \in meal_plan :
        /\ p.recipe_id = r.id /\ p.user_id = user_id
        /\ p.date \in today..(today + days - 1) }

\* C13: generate_shopping_cart for N days puts the parsed ingredients of every
\* recipe of the meal plan of the N dates from today into the cart.
C13_PlanIngredientsInCart ==
    [][\A days \in PeriodDays :
          cart_generate(days) =>
              \A r \in PlanRecipes(Me, days) :
                  \A i \in DOMAIN parse_ingredients(r.ingredients) :
                      \E item \in shopping_cart' :
                          /\ item.user_id = Me
                          /\ item.product_name =
                                parse_ingredients(r.ingredients)[i].product_name]_vars

\* ------------------------------------------------------------------ plan to diary

\* the plan entries of the user's date with their recipes
PlannedMeals(date) ==
    { pr \in meal_plan \X recipes :
        pr[1].recipe_id = pr[2].id /\ pr[1].user_id = Me /\ pr[1].date = date }

\* the handler wrote one diary entry for each plan entry of the date
Transferred(date) ==
    LET added == food_entries' \ food_entries
    IN /\ Cardinality(added) = Cardinality(PlannedMeals(date))
       /\ \A pr \in PlannedMeals(date) : \E e \in added :
             /\ e.user_id = Me /\ e.date = date /\ e.meal_type = pr[1].meal_type
             /\ e.food_name = pr[2].name /\ e.calories = pr[2].calories
             /\ e.protein = pr[2].protein /\ e.fat = pr[2].fat /\ e.carbs = pr[2].carbs
       /\ meal_plan' = meal_plan

\* C14: transfer_plan_to_diary and save_plan_to_diary on a non-empty plan add one
\* diary entry per plan entry of the date, with the entry's date and meal type and
\* the recipe's name and nutrition values, and leave the meal plan unchanged.
C14_PlanCopiedToDiary ==
    [][/\ transfer_plan_to_diary => Transferred(SelectedDateOrToday)
       /\ \A d \in Dates : save_plan_to_diary(d) => Transferred(d)]_vars

\* ------------------------------------------------------------------ plan rows and recipes

\* C20: every meal_plan row refers to a recipe that still exists.
C20_PlanRowsHaveRecipes ==
    \A p \in meal_plan : \E r \in recipes : r.id = p.recipe_id

\* ------------------------------------------------------------------ registration

\* cmd_start showed the start keyboard: the user has no goal_calories yet
OnStartScreen ==
    /\ last_handler = "cmd_start"
    /\ users[Me] # None
    /\ users[Me].goal_calories = Null

\* C15: on the start screen the first button of the start keyboard sends a text
\* under which start_registration is registered, and pressing it puts the
\* conversation into RegistrationStates.waiting_for_name.
C15_StartButtonRegisters ==
    [][(OnStartScreen /\ Message(start_keyboard[1])) =>
          /\ MessageHandler(fsm_state, start_keyboard[1]) = "start_registration"
          /\ fsm_state' = "RegistrationStates:waiting_for_name"]_vars

\* the states of the registration flow in the order of its questions
RegistrationOrder ==
    << "RegistrationStates:waiting_for_name", "RegistrationStates:waiting_for_gender",
       "RegistrationStates:waiting_for_age", "RegistrationStates:waiting_for_height",
       "RegistrationStates:waiting_for_weight", "RegistrationStates:waiting_for_activity",
       "RegistrationStates:waiting_for_goal" >>

ProfileEditStates == {"ProfileStates:editing_weight", "ProfileStates:editing_goal"}

\* a registered user has every field of the profile
RegisteredUsersComplete ==
    \A u \in Users :
        (users[u] # None /\ users[u].registration_complete) =>
            /\ users[u].name # NullText /\ users[u].gender # NullText
            /\ users[u].age # Null /\ users[u].height # Null /\ users[u].weight # Null
            /\ users[u].activity_level # NullText /\ users[u].goal # NullText
            /\ users[u].goal_calories # Null

\* the handler registered for a state of the registration flow
RegistrationHandlers ==
    << "process_name", "process_gender", "process_age", "process_height",
       "process_weight", "process_activity", "process_goal" >>

\* a step of the registration flow that leaves its state goes to the next state
\* of the order, the last one to the end of the flow
FlowInOrder ==
    \A i \in DOMAIN RegistrationOrder :
        (/\ fsm_state = RegistrationOrder[i]
         /\ last_handler' = RegistrationHandlers[i]
         /\ fsm_state' # fsm_state) =>
            \/ i < Len(RegistrationOrder) /\ fsm_state' = RegistrationOrder[i + 1]
            \/ i = Len(RegistrationOrder) /\ fsm_state' = StateNone

\* the text is not an answer the step in this state accepts
InvalidInput(state, text) ==
    CASE state = "RegistrationStates:waiting_for_name" -> Len(text) = 0 \/ Len(text) > 50
      [] state = "RegistrationStates:waiting_for_gender" -> text \notin Genders
      [] state = "RegistrationStates:waiting_for_age" ->
            ~int(text).ok \/ int(text).v < 12 \/ int(text).v > 120
      [] state = "RegistrationStates:waiting_for_height" ->
            ~float(text).ok \/ float(text).v < 100 \/ float(text).v > 250
      [] state \in {"RegistrationStates:waiting_for_weight", "ProfileStates:editing_weight"} ->
            ~float(text).ok \/ float(text).v < 30 \/ float(text).v > 300
      [] state = "RegistrationStates:waiting_for_activity" -> text \notin ActivityLevels
      [] state \in {"RegistrationStates:waiting_for_goal", "ProfileStates:editing_goal"} ->
            text \notin ValidGoals
      [] OTHER -> FALSE

\* the handlers of the registration and profile-edit steps
StepHandlers ==
    {"process_name", "process_gender", "process_age", "process_height", "process_weight",
     "process_activity", "process_goal", "process_new_weight", "process_new_goal"}

\* a step that gets invalid input keeps the conversation state and the profile
InvalidInputKeeps ==
    \A text \in RegistrationTexts :
        (/\ MessageHandler(fsm_state, text) \in StepHandlers
         /\ InvalidInput(fsm_state, text)
         /\ Message(text))
            => fsm_state' = fsm_state /\ users' = users

\* C16: a user with registration_complete has name, gender, age, height, weight,
\* activity level, goal and goal_calories; the registration flow goes through
\* its questions in order; a registration or profile-edit step that gets
\* invalid input changes neither the conversation state nor the profile.
C16_RegistrationKeepsProfile ==
    /\ []RegisteredUsersComplete
    /\ [][FlowInOrder /\ InvalidInputKeeps]_vars

\* C18: when process_food_amount gets an amount that is not a number, the
\* conversation stays in DiaryStates.entering_amount and the selected food,
\* meal type and date stay in the conversation data, so that the next amount
\* is handled by process_food_amount again
C18_BadAmountKeepsConversation ==
    [][ \A text \in AmountTexts, fail \in HandlerFails :
          (process_food_amount(text, fail) /\ ~float(text).ok)
             => /\ fsm_state' = "entering_amount"
                /\ fsm_data' = fsm_data ]_vars

\* C19: confirm_clear_diary, run on the confirmation clear_diary just asked
\* for, deletes exactly the user's diary entries of the date of the diary on
\* the screen, whatever diary operations came before
C19_ClearDeletesShownDate ==
    [][ confirm_clear_diary("none")
          => food_entries' = { e \in food_entries :
                                 ~(e.user_id = Me /\ e.date = diary_date) } ]_vars

\* ------------------------------------------------------------------ callback dispatch properties

\* the callbacks for which register_handlers registers a dedicated handler
DedicatedCallbacks ==
    {"select_food:0", "confirm_food", "confirm_clear", "cancel_clear",
     "plan_date:next", "plan:add", "plan_recipe:1", "delete_plan_entry:1",
     "replace_dish:1", "confirm_replace:1", "delete_recipe:1", "stats:week"}

\* the handler registered under a filter that the callback data passes
DedicatedHandler(state, data) ==
    FirstMatch({ i \in DOMAIN CallbackRegistrations :
                   CallbackRegistrations[i].filter # "any" }, state, data)

\* C17: a callback whose data passes the filter of a dedicated handler is
\* handled by that handler, not by a handler registered earlier
C17_DedicatedHandlerGetsCallback ==
    [][ \A data \in DedicatedCallbacks :
          callback_query(data) => last_handler' = DedicatedHandler(fsm_state, data) ]_vars

\* ------------------------------------------------------------------ dish replacement properties

\* the plan rows of a user's slot in a meal_plan table
SlotRows(plan, user_id, meal_type, date) ==
    { p \in plan : p.user_id = user_id /\ p.meal_type = meal_type /\ p.date = date }

\* C22: confirm_replace_dish loses no plan entry: when the old row was
\* removed, the slot of the pressed button holds as many plan rows after the
\* call as before it, also when add_to_meal_plan fails
C22_ReplaceKeepsSlotCount ==
    [][ \A b \in ReplaceButtons, fail_add \in HandlerFails :
          confirm_replace_dish(b, "none", fail_add)
             => Cardinality(SlotRows(meal_plan', Me, b.meal_type, b.date))
                  = Cardinality(SlotRows(meal_plan, Me, b.meal_type, b.date)) ]_vars

\* ------------------------------------------------------------------ overlapping plan generation properties

\* C21: when both overlapping generate_meal_plan calls have ended, the plan of
\* every date holds at most one entry per meal type
C21_OneEntryPerSlot ==
    (\A q \in Requests : plan_requests[q].pc = "finished")
        => \A d \in Dates : \A i \in DOMAIN MealTypes :
              Cardinality(SlotRows(meal_plan, Me, MealTypes[i], d)) <= 1

====
